---- MODULE Spec2Model ----
(***************************************************************************)
(* A model of the CV parser (app/parser/core.py) and of the baseline       *)
(* scoring engine (app/scoring/engine.py, app/scoring/llm_scorer.py).      *)
(*                                                                         *)
(* Numbers that are floats in the program are exact rationals <<n, d>>     *)
(* here (d > 0, lowest terms); round(x, 2) is rounding to the nearest      *)
(* hundredth on the exact value.  Strings are TLA+ strings, and the string *)
(* methods the program uses (lower, strip, in, split) are operators that   *)
(* compute on the characters.  Dates are records [y, m]: every date the    *)
(* claims speak about is compared by year and month only.                  *)
(***************************************************************************)
EXTENDS Integers, Sequences, FiniteSets, TLC

VARIABLES
    pc,              \* position of the request being served
    job,             \* JobProfile of the scoring request
    candidate,       \* ParsedCandidate of the scoring request
    custom_weights,  \* ScoreRequest.custom_weights (None or a weight map)
    mode,            \* ScoreRequest.mode: "baseline" or "llm"
    today,           \* date.today() at the time of the call
    locals,          \* the local variables of ScoringEngine.score at its end
    result,          \* what the call returned, or the exception it raised
    last,            \* the previous call: [candidate, locals, result] or a Candidate
    upload,          \* the file of the parse request: [file_bytes, filename]
    seed,            \* the string-hash seed of the process serving the request
    parsed,          \* what parse_file returned, or the exception it raised
    settings,        \* app.config.settings: [LLM_ENABLED, LLM_PARSE_ENABLED, ...]
    _parse_cache,    \* llm_parser._parse_cache: file hash -> ParsedCandidate
    params,          \* the query parameters of the parse request
    scoring_results  \* the rows of table scoring_results, oldest first

vars ==
    <<pc, job, candidate, custom_weights, mode, today, locals, result, last,
      upload, seed, parsed, settings, _parse_cache, params, scoring_results>>

\* Python's None: for Optional numbers and dates (tuples here) and for Optional
\* strings and enums (strings here).
None == <<>>
NoneStr == "<None>"

-----------------------------------------------------------------------------
(* Exact rational arithmetic for the program's float expressions.          *)

Abs(n) == IF n < 0 THEN -n ELSE n

RECURSIVE GCD(_, _)
GCD(a, b) == IF b = 0 THEN a ELSE GCD(b, a % b)

Rat(n, d) ==
    LET g == GCD(Abs(n), Abs(d))
        s == IF d < 0 THEN -1 ELSE 1
    IN  IF n = 0 THEN <<0, 1>> ELSE <<(s * n) \div g, (s * d) \div g>>

RInt(n) == <<n, 1>>
RAdd(a, b) == Rat(a[1] * b[2] + b[1] * a[2], a[2] * b[2])
RSub(a, b) == Rat(a[1] * b[2] - b[1] * a[2], a[2] * b[2])
RMul(a, b) == Rat(a[1] * b[1], a[2] * b[2])
RDiv(a, b) == Rat(a[1] * b[2], a[2] * b[1])
RLt(a, b) == a[1] * b[2] < b[1] * a[2]
RLe(a, b) == a[1] * b[2] <= b[1] * a[2]
RMin(a, b) == IF RLe(a, b) THEN a ELSE b
RMax(a, b) == IF RLe(a, b) THEN b ELSE a
IsZero(a) == a[1] = 0

\* round(x, 2): the nearest hundredth, ties to the even hundredth.
Round2(a) ==
    LET n == a[1] * 100
        d == a[2]
        q == n \div d            \* floor, d > 0
        r == n % d               \* 0 <= r < d
        up == \/ 2 * r > d
              \/ (2 * r = d /\ q % 2 = 1)
    IN  Rat(IF up THEN q + 1 ELSE q, 100)

\* round(x, 1), used by the LLM enhancement.
Round1(a) ==
    LET n == a[1] * 10
        d == a[2]
        q == n \div d
        r == n % d
        up == \/ 2 * r > d
              \/ (2 * r = d /\ q % 2 = 1)
    IN  Rat(IF up THEN q + 1 ELSE q, 10)

-----------------------------------------------------------------------------
(* str methods.                                                            *)

UpperChars == "ABCDEFGHIJKLMNOPQRSTUVWXYZ"
LowerChars == "abcdefghijklmnopqrstuvwxyz"

CharAt(s, i) == SubSeq(s, i, i)

LowerChar(c) ==
    IF \E i \in 1..Len(UpperChars) : CharAt(UpperChars, i) = c
    THEN CharAt(LowerChars, CHOOSE i \in 1..Len(UpperChars) : CharAt(UpperChars, i) = c)
    ELSE c

\* str.lower()
RECURSIVE Lower(_)
Lower(s) == IF Len(s) = 0 THEN "" ELSE LowerChar(CharAt(s, 1)) \o Lower(SubSeq(s, 2, Len(s)))

IsSpace(c) == c \in {" ", "\t", "\n"}

RECURSIVE LStrip(_)
LStrip(s) == IF Len(s) > 0 /\ IsSpace(CharAt(s, 1)) THEN LStrip(SubSeq(s, 2, Len(s))) ELSE s

RECURSIVE RStrip(_)
RStrip(s) == IF Len(s) > 0 /\ IsSpace(CharAt(s, Len(s))) THEN RStrip(SubSeq(s, 1, Len(s) - 1)) ELSE s

\* str.strip()
Strip(s) == RStrip(LStrip(s))

\* sub in s
Contains(sub, s) ==
    \E i \in 0..(Len(s) - Len(sub)) : SubSeq(s, i + 1, i + Len(sub)) = sub

\* s.startswith(p)
StartsWith(s, p) == Len(p) <= Len(s) /\ SubSeq(s, 1, Len(p)) = p

\* x in list
InSeq(x, seq) == \E i \in 1..Len(seq) : seq[i] = x

\* any(kw in text for kw in keywords)
AnyKeywordIn(keywords, text) == \E i \in 1..Len(keywords) : Contains(keywords[i], text)

-----------------------------------------------------------------------------
(* PrestigeDetector.  Multipliers are in hundredths: 140 is 1.4.           *)

TIER_1_UNIVERSITIES ==
    <<"oxford", "cambridge", "harvard", "stanford", "mit", "yale", "princeton",
      "caltech", "berkeley", "imperial", "eth zurich", "university college london",
      "ucl", "london school of economics", "lse", "columbia", "chicago">>

TIER_2_UNIVERSITIES ==
    <<"manchester", "edinburgh", "warwick", "bristol", "durham",
      "nottingham", "birmingham", "leeds", "sheffield", "southampton",
      "reading",
      "ucla", "michigan", "virginia", "texas", "washington", "cornell",
      "penn", "duke", "northwestern", "johns hopkins", "carnegie mellon">>

TIER_1_COMPANIES ==
    <<"google", "apple", "microsoft", "amazon", "meta", "facebook",
      "goldman sachs", "morgan stanley", "jp morgan", "jpmorgan",
      "mckinsey", "bain", "bcg", "boston consulting",
      "deloitte", "pwc", "ey", "kpmg", "accenture">>

TIER_2_COMPANIES ==
    <<"salesforce", "adobe", "oracle", "ibm", "uber", "airbnb",
      "barclays", "hsbc", "citi", "citigroup", "credit suisse",
      "rothschild", "lazard", "evercore", "moelis">>

TIER_3_COMPANIES == <<"laven partners", "rolabotic">>

get_university_prestige_multiplier(institution_name) ==
    IF institution_name = NoneStr \/ institution_name = "" THEN 100
    ELSE LET name_lower == Lower(institution_name)
         IN  IF AnyKeywordIn(TIER_1_UNIVERSITIES, name_lower) THEN 130
             ELSE IF AnyKeywordIn(TIER_2_UNIVERSITIES, name_lower) THEN 115
             ELSE 100

get_company_prestige_multiplier(company_name) ==
    IF company_name = NoneStr \/ company_name = "" THEN 100
    ELSE LET name_lower == Lower(company_name)
         IN  IF AnyKeywordIn(TIER_1_COMPANIES, name_lower) THEN 140
             ELSE IF AnyKeywordIn(TIER_2_COMPANIES, name_lower) THEN 120
             ELSE IF AnyKeywordIn(TIER_3_COMPANIES, name_lower) THEN 105
             ELSE 100

-----------------------------------------------------------------------------
(* ScoringEngine: weights and job level.                                   *)

Components == {"skills", "experience", "education", "certifications", "stability"}

\* ScoringEngine.WEIGHTS, in percent
WEIGHTS ==
    [skills |-> 55, experience |-> 25, education |-> 10,
     certifications |-> 5, stability |-> 5]

RULES_VERSION == "2.1.0"
MODEL_VERSION == "baseline-2.1"

INTERN_KEYWORDS ==
    <<"intern", "internship", "trainee", "placement", "summer analyst", "spring week">>
ENTRY_LEVEL_KEYWORDS ==
    <<"entry", "junior", "graduate", "analyst", "associate", "assistant">>
SENIOR_KEYWORDS ==
    <<"senior", "lead", "principal", "staff", "head", "director", "manager", "vp",
      "vice president">>

\* Python truth value of an Optional[float] given as a rational or None
Truthy(x) == x # None /\ ~IsZero(x)

_detect_job_level(j) ==
    LET combined == Lower(j.title) \o " " \o Lower(j.description)
    IN  IF AnyKeywordIn(INTERN_KEYWORDS, combined) THEN "intern"
        ELSE IF AnyKeywordIn(SENIOR_KEYWORDS, combined) THEN "senior"
        ELSE IF AnyKeywordIn(ENTRY_LEVEL_KEYWORDS, combined) THEN "entry"
        ELSE IF Truthy(j.min_years_experience)
             THEN IF RLe(j.min_years_experience, RInt(1)) THEN "entry"
                  ELSE IF RLe(j.min_years_experience, RInt(3)) THEN "mid"
                  ELSE "senior"
        ELSE "mid"

-----------------------------------------------------------------------------
(* rapidfuzz.fuzz as the matcher calls it: ratio is the normalised Indel   *)
(* similarity 100 * 2 * LCS / (len1 + len2); partial_ratio is the best     *)
(* ratio of the shorter string against the windows of the longer one.      *)

Max(a, b) == IF a >= b THEN a ELSE b
Min(a, b) == IF a <= b THEN a ELSE b

\* One row of the longest-common-subsequence table: prev is the row of the
\* previous character of a, c the current character of a.
RECURSIVE LCSRow(_, _, _, _)
LCSRow(prev, c, b, acc) ==
    LET j == Len(acc) + 1
    IN  IF j > Len(b) THEN acc
        ELSE LET diag == IF j = 1 THEN 0 ELSE prev[j - 1]
                 left == IF j = 1 THEN 0 ELSE acc[j - 1]
                 v == IF CharAt(b, j) = c THEN diag + 1 ELSE Max(prev[j], left)
             IN  LCSRow(prev, c, b, Append(acc, v))

RECURSIVE LCSRows(_, _, _, _)
LCSRows(a, b, i, prev) ==
    IF i > Len(a) THEN prev
    ELSE LCSRows(a, b, i + 1, LCSRow(prev, CharAt(a, i), b, <<>>))

LCS(a, b) ==
    IF Len(a) = 0 \/ Len(b) = 0 THEN 0
    ELSE LCSRows(a, b, 1, [j \in 1..Len(b) |-> 0])[Len(b)]

\* fuzz.ratio(a, b), a rational in [0, 100]
fuzz_ratio(a, b) ==
    IF Len(a) + Len(b) = 0 THEN RInt(100)
    ELSE Rat(200 * LCS(a, b), Len(a) + Len(b))

RMaxOver(S) == CHOOSE x \in S : \A y \in S : RLe(y, x)

\* the windows of long that partial_ratio aligns short with
Windows(short, long) ==
    LET m == Len(short)
        n == Len(long)
    IN  {SubSeq(long, 1, i) : i \in 1..(m - 1)}
        \cup {SubSeq(long, i + 1, i + m) : i \in 0..(n - m)}
        \cup {SubSeq(long, i + 1, n) : i \in (n - m + 1)..(n - 1)}

\* fuzz.partial_ratio(a, b)
fuzz_partial_ratio(a, b) ==
    IF Len(a) = 0 /\ Len(b) = 0 THEN RInt(100)
    ELSE IF Len(a) = 0 \/ Len(b) = 0 THEN RInt(0)
    ELSE LET short == IF Len(a) <= Len(b) THEN a ELSE b
             long == IF Len(a) <= Len(b) THEN b ELSE a
         IN  RMaxOver({fuzz_ratio(short, w) : w \in Windows(short, long)})

-----------------------------------------------------------------------------
(* SkillMatcher.  Match strengths are in hundredths: 85 is 0.85.           *)
(* candidate_skills is the sequence of the dict's keys in insertion order. *)

\* self.synonyms, in the order of the dict
synonyms ==
    << <<"python", <<"python", "python3", "py">> >>,
       <<"javascript", <<"js", "javascript", "ecmascript", "node", "nodejs">> >>,
       <<"java", <<"java">> >>,
       <<"csharp", <<"c#", "csharp", "c-sharp", ".net">> >>,
       <<"sql", <<"sql", "structured query language", "database">> >>,
       <<"aws", <<"amazon web services", "aws", "amazon cloud">> >>,
       <<"gcp", <<"google cloud", "google cloud platform", "gcp">> >>,
       <<"azure", <<"azure", "microsoft azure">> >>,
       <<"kubernetes", <<"k8s", "kubernetes">> >>,
       <<"docker", <<"docker", "containerization", "containers">> >>,
       <<"postgresql", <<"postgres", "postgresql", "psql">> >>,
       <<"mysql", <<"mysql">> >>,
       <<"mongodb", <<"mongo", "mongodb">> >>,
       <<"react", <<"reactjs", "react.js", "react">> >>,
       <<"angular", <<"angular", "angularjs">> >>,
       <<"vue", <<"vue", "vuejs", "vue.js">> >>,
       <<"excel", <<"excel", "microsoft excel", "spreadsheets">> >>,
       <<"financial_modeling",
         <<"financial modeling", "financial modelling", "modeling", "modelling">> >>,
       <<"financial_analysis", <<"financial analysis", "finance", "financial">> >>,
       <<"accounting", <<"accounting", "accountancy">> >>,
       <<"valuation", <<"valuation", "company valuation", "dcf">> >>,
       <<"portfolio_management",
         <<"portfolio management", "portfolio", "investment management">> >>,
       <<"risk_management", <<"risk management", "risk">> >>,
       <<"data_analysis", <<"data analysis", "analytics", "data analytics">> >>,
       <<"powerpoint", <<"powerpoint", "presentations", "ppt">> >>,
       <<"communication", <<"communication", "presentation", "writing">> >> >>

\* self.categories, in the order of the dict
categories ==
    << <<"finance", "financial", "accounting", "investment", "banking">>,
       <<"programming", "coding", "development", "software">>,
       <<"data", "analytics", "analysis", "statistics">>,
       <<"cloud", "aws", "azure", "gcp">> >>

\* The synonym step of match_skill: the groups in dict order; in a group the
\* synonyms in list order; for each synonym first the exact test (0.85), then
\* the partial test over all candidate skills (0.8).  0 when nothing returns.
RECURSIVE SynonymScan(_, _, _, _)
SynonymScan(required_lower, candidate_skills, g, k) ==
    IF g > Len(synonyms) THEN 0
    ELSE LET canonical == synonyms[g][1]
             syns == synonyms[g][2]
         IN  IF ~(InSeq(required_lower, syns) \/ required_lower = canonical)
             THEN SynonymScan(required_lower, candidate_skills, g + 1, 1)
             ELSE IF k > Len(syns)
             THEN SynonymScan(required_lower, candidate_skills, g + 1, 1)
             ELSE IF InSeq(syns[k], candidate_skills) THEN 85
             ELSE IF \E i \in 1..Len(candidate_skills) :
                        \/ Contains(syns[k], candidate_skills[i])
                        \/ Contains(candidate_skills[i], syns[k])
                  THEN 80
             ELSE SynonymScan(required_lower, candidate_skills, g, k + 1)

\* The category step: 0.6 when a keyword of some category occurs in the
\* required term and a keyword of the same category in a candidate skill.
CategoryMatch(required_lower, candidate_skills) ==
    \E c \in 1..Len(categories) :
        /\ AnyKeywordIn(categories[c], required_lower)
        /\ \E i \in 1..Len(candidate_skills) :
               AnyKeywordIn(categories[c], candidate_skills[i])

\* best_ratio of the fuzzy step
BestRatio(required_lower, candidate_skills) ==
    IF Len(candidate_skills) = 0 THEN RInt(0)
    ELSE RMaxOver(
           {fuzz_ratio(required_lower, candidate_skills[i]) :
                i \in 1..Len(candidate_skills)}
           \cup
           {RMul(fuzz_partial_ratio(required_lower, candidate_skills[i]), Rat(9, 10)) :
                i \in 1..Len(candidate_skills)})

match_skill(required, candidate_skills) ==
    LET required_lower == Strip(Lower(required))
        syn == SynonymScan(required_lower, candidate_skills, 1, 1)
        best_ratio == BestRatio(required_lower, candidate_skills)
    IN  IF InSeq(required_lower, candidate_skills) THEN 100
        ELSE IF \E i \in 1..Len(candidate_skills) :
                   \/ Contains(required_lower, candidate_skills[i])
                   \/ Contains(candidate_skills[i], required_lower)
             THEN 90
        ELSE IF syn # 0 THEN syn
        ELSE IF CategoryMatch(required_lower, candidate_skills) THEN 60
        ELSE IF RLt(RInt(80), best_ratio) THEN 70
        ELSE IF RLt(RInt(65), best_ratio) THEN 50
        ELSE IF RLt(RInt(50), best_ratio) THEN 30
        ELSE 0

-----------------------------------------------------------------------------
(* ScoringEngine._score_skills.  Every scorer returns the pair              *)
(* <<component_score, weighted_contribution>> of rationals.                 *)

\* the keys of {s.name.lower(): s for s in candidate.skills}, in insertion order
RECURSIVE DictKeys(_, _)
DictKeys(names, acc) ==
    IF Len(names) = 0 THEN acc
    ELSE LET k == Lower(Head(names))
         IN  DictKeys(Tail(names), IF InSeq(k, acc) THEN acc ELSE Append(acc, k))

\* finance_keywords.items(), in the order of the dict literal (a repeated
\* value is one entry of the dict per key)
finance_keywords ==
    << <<"corporate finance", "corporate finance">>,
       <<"financial modelling", "financial modeling">>,
       <<"financial modeling", "financial modeling">>,
       <<"portfolio management", "portfolio management">>,
       <<"fx", "foreign exchange">>,
       <<"debt markets", "debt markets">>,
       <<"econometrics", "econometrics">>,
       <<"accounting", "accounting">>,
       <<"valuation", "valuation">>,
       <<"investment", "investment">>,
       <<"financial analysis", "financial analysis">> >>

StrOrEmpty(x) == IF x = NoneStr THEN "" ELSE x

RECURSIVE AddCoursework(_, _, _)
AddCoursework(coursework_text, keys, k) ==
    IF k > Len(finance_keywords) THEN keys
    ELSE LET keyword == finance_keywords[k][1]
             skill_name == finance_keywords[k][2]
         IN  AddCoursework(coursework_text,
                 IF Contains(keyword, coursework_text) /\ ~InSeq(skill_name, keys)
                 THEN Append(keys, skill_name) ELSE keys,
                 k + 1)

RECURSIVE CourseworkSkills(_, _)
CourseworkSkills(education, keys) ==
    IF Len(education) = 0 THEN keys
    ELSE LET edu == Head(education)
             coursework_text ==
                 Lower(StrOrEmpty(edu.field) \o " " \o StrOrEmpty(edu.institution))
         IN  CourseworkSkills(Tail(education), AddCoursework(coursework_text, keys, 1))

\* candidate_skills as _score_skills builds it
CandidateSkills(cand, job_level) ==
    LET keys == DictKeys(cand.skills, <<>>)
    IN  IF job_level \in {"intern", "entry"} /\ Len(cand.education) > 0
        THEN CourseworkSkills(cand.education, keys)
        ELSE keys

BaseCredit(candidate_skills, job_level) ==
    LET n == Len(candidate_skills)
    IN  IF job_level = "intern" THEN RMin(RInt(40), RInt(4 * n))
        ELSE IF job_level = "entry" THEN RMin(RInt(35), Rat(7 * n, 2))
        ELSE RMin(RInt(30), RInt(3 * n))

\* sum of match strengths (hundredths) of the wanted skills
RECURSIVE Matches(_, _)
Matches(wanted, candidate_skills) ==
    IF Len(wanted) = 0 THEN 0
    ELSE match_skill(Head(wanted), candidate_skills) + Matches(Tail(wanted), candidate_skills)

\* match_ratio = matches / len(wanted)
MatchRatio(wanted, candidate_skills) ==
    Rat(Matches(wanted, candidate_skills), 100 * Len(wanted))

\* the four bands of the required-skill score
RequiredScore(match_ratio, base_credit) ==
    IF RLe(Rat(8, 10), match_ratio)
    THEN RMin(RInt(95), RAdd(RInt(85), RMul(RSub(match_ratio, Rat(8, 10)), RInt(50))))
    ELSE IF RLe(Rat(5, 10), match_ratio)
    THEN RAdd(RInt(70), RMul(RSub(match_ratio, Rat(5, 10)), RInt(50)))
    ELSE IF RLe(Rat(3, 10), match_ratio)
    THEN RAdd(RInt(50), RMul(RSub(match_ratio, Rat(3, 10)), RInt(100)))
    ELSE RAdd(base_credit, RMul(match_ratio, RInt(67)))

\* component_score * WEIGHTS[name] / 100, rounded
Contribution(component_score, name) ==
    Round2(RMul(component_score, Rat(WEIGHTS[name], 100)))

_score_skills(cand, j, job_level) ==
    IF Len(j.required_skills) = 0 /\ Len(j.preferred_skills) = 0
    THEN LET component_score ==
                 IF Len(cand.skills) > 0
                 THEN RMin(RInt(80), RInt(55 + Len(cand.skills) * 5))
                 ELSE RInt(50)
         IN  <<Round2(component_score),
               Round2(RMul(RInt(WEIGHTS.skills), RDiv(component_score, RInt(100))))>>
    ELSE LET candidate_skills == CandidateSkills(cand, job_level)
             base_credit == BaseCredit(candidate_skills, job_level)
             required_score ==
                 IF Len(j.required_skills) > 0
                 THEN RequiredScore(MatchRatio(j.required_skills, candidate_skills),
                                    base_credit)
                 ELSE RInt(85)
             preferred_score ==
                 IF Len(j.preferred_skills) > 0
                 THEN RMin(RInt(92),
                           RMul(MatchRatio(j.preferred_skills, candidate_skills), RInt(92)))
                 ELSE RInt(0)
             combined ==
                 IF Len(j.required_skills) > 0
                 THEN RAdd(RMul(required_score, Rat(65, 100)),
                           RMul(preferred_score, Rat(35, 100)))
                 ELSE preferred_score
             floored ==
                 IF RLt(combined, base_credit) /\ Len(cand.skills) > 0
                 THEN base_credit ELSE combined
             component_score == Round2(floored)
         IN  <<component_score, Contribution(component_score, "skills")>>

-----------------------------------------------------------------------------
(* ScoringEngine._score_experience.                                        *)
(* A work entry is [employer, title, start_date, end_date, duration_months]*)
(* with dates <<y, m, d>> or None, and duration_months a number whose     *)
(* Python truth value is the only test made of None: 0 stands for both.    *)

ZeroDivisionError == <<"ZeroDivisionError">>
IsRaised(x) == Len(x) = 1

\* recency_factor of one role, in tenths
RecencyFactor(work, current_year) ==
    IF work.end_date # None
    THEN Max(5, 10 - (current_year - work.end_date[1]))
    ELSE 10

\* total_months
RECURSIVE TotalMonths(_)
TotalMonths(work_experience) ==
    IF Len(work_experience) = 0 THEN 0
    ELSE Head(work_experience).duration_months + TotalMonths(Tail(work_experience))

\* weighted_months, in tenths of a month
RECURSIVE WeightedMonths(_, _)
WeightedMonths(work_experience, current_year) ==
    IF Len(work_experience) = 0 THEN 0
    ELSE LET work == Head(work_experience)
         IN  work.duration_months * RecencyFactor(work, current_year)
                 + WeightedMonths(Tail(work_experience), current_year)

\* prestige_weighted_months, in thousandths of a month
RECURSIVE PrestigeWeightedMonths(_, _)
PrestigeWeightedMonths(work_experience, current_year) ==
    IF Len(work_experience) = 0 THEN 0
    ELSE LET work == Head(work_experience)
         IN  work.duration_months * RecencyFactor(work, current_year)
                     * get_company_prestige_multiplier(work.employer)
                 + PrestigeWeightedMonths(Tail(work_experience), current_year)

\* max_prestige over the roles with a duration, in hundredths
MaxCompanyPrestige(work_experience) ==
    LET S == {get_company_prestige_multiplier(work_experience[i].employer) :
                 i \in {k \in 1..Len(work_experience) :
                            work_experience[k].duration_months # 0}}
    IN  IF S = {} THEN 100 ELSE CHOOSE x \in S : \A y \in S : y <= x

\* all(work.duration_months and work.duration_months <= 6 for work in ...)
AllShortStints(work_experience) ==
    \A i \in 1..Len(work_experience) :
        /\ work_experience[i].duration_months # 0
        /\ work_experience[i].duration_months <= 6

\* the intern branch
InternExperience(total_years, prestige_years, max_prestige, is_likely_intern) ==
    IF is_likely_intern \/ RLt(total_years, RInt(1))
    THEN LET base_score == IF max_prestige >= 140 THEN 70
                           ELSE IF max_prestige >= 120 THEN 60
                           ELSE IF max_prestige >= 105 THEN 45
                           ELSE 35
             max_bonus == IF max_prestige >= 120 THEN 25
                          ELSE IF max_prestige >= 105 THEN 20
                          ELSE 15
             bonus == RMul(RDiv(prestige_years, Rat(1, 2)), RInt(max_bonus))
         IN  RMin(RInt(base_score + max_bonus), RAdd(RInt(base_score), bonus))
    ELSE RAdd(RInt(90), RMul(Rat(max_prestige - 100, 100), RInt(5)))

\* the entry branch
EntryExperience(total_years, prestige_years) ==
    IF RLe(total_years, RInt(2))
    THEN RMin(RInt(95), RAdd(RInt(75), RMul(RDiv(prestige_years, RInt(2)), RInt(20))))
    ELSE RInt(85)

\* the mid/senior branch; the division by (preferred - min) raises when the
\* two are equal
MidSeniorExperience(j, total_years, weighted_years, prestige_years, max_prestige) ==
    IF Truthy(j.min_years_experience)
    THEN IF RLe(j.min_years_experience, total_years)
         THEN LET preferred ==
                      IF Truthy(j.preferred_years_experience)
                      THEN j.preferred_years_experience
                      ELSE RMul(j.min_years_experience, Rat(3, 2))
                  span == RSub(preferred, j.min_years_experience)
                  excess == RMin(RSub(prestige_years, j.min_years_experience), span)
              IN  IF IsZero(span) THEN ZeroDivisionError
                  ELSE RMin(RInt(95),
                            RAdd(RInt(75), RMul(RDiv(excess, span), RInt(20))))
         ELSE LET base_score ==
                      RMul(RDiv(total_years, j.min_years_experience), RInt(75))
                  prestige_boost == RMul(Rat(max_prestige - 100, 100), RInt(20))
              IN  RMin(RInt(85), RAdd(base_score, prestige_boost))
    ELSE LET base_score == RMin(RInt(85), RMul(RDiv(weighted_years, RInt(6)), RInt(85)))
             prestige_boost == RMul(Rat(max_prestige - 100, 100), RInt(10))
         IN  RMin(RInt(95), RAdd(base_score, prestige_boost))

\* the no-experience branch with the intern case left out: an intern job
\* falls through to the entry-level score
NoExperienceNoIntern(job_level) ==
    IF job_level \in {"intern", "entry"}
    THEN <<RInt(30), Round2(RMul(RInt(WEIGHTS.experience), Rat(30, 100)))>>
    ELSE <<RInt(0), RInt(0)>>

\* if not candidate.work_experience: the score by job level
NoExperience(job_level) ==
    IF job_level = "intern"
    THEN <<RInt(65), Round2(RMul(RInt(WEIGHTS.experience), Rat(65, 100)))>>
    ELSE IF job_level = "entry"
    THEN <<RInt(30), Round2(RMul(RInt(WEIGHTS.experience), Rat(30, 100)))>>
    ELSE <<RInt(0), RInt(0)>>

_score_experience(cand, j, job_level, current_year) ==
    IF Len(cand.work_experience) = 0
    THEN NoExperience(job_level)
    ELSE LET we == cand.work_experience
             total_years == Rat(TotalMonths(we), 12)
             weighted_years == Rat(WeightedMonths(we, current_year), 120)
             prestige_years == Rat(PrestigeWeightedMonths(we, current_year), 12000)
             max_prestige == MaxCompanyPrestige(we)
             is_likely_intern == AllShortStints(we)
             raw == IF job_level = "intern"
                    THEN InternExperience(total_years, prestige_years, max_prestige,
                                          is_likely_intern)
                    ELSE IF job_level = "entry"
                    THEN EntryExperience(total_years, prestige_years)
                    ELSE MidSeniorExperience(j, total_years, weighted_years,
                                             prestige_years, max_prestige)
         IN  IF IsRaised(raw) THEN raw
             ELSE LET component_score == Round2(raw)
                  IN  <<component_score, Contribution(component_score, "experience")>>

-----------------------------------------------------------------------------
(* ScoringEngine._score_education.  An education entry is                  *)
(* [institution, degree, field]; degree is an EducationLevel or NoneStr.   *)

\* level_rank.get(level, 0)
LevelRank(level) ==
    CASE level = "high_school" -> 1
      [] level = "certificate" -> 2
      [] level = "associates" -> 3
      [] level = "bachelors" -> 4
      [] level = "masters" -> 5
      [] level = "doctorate" -> 6
      [] OTHER -> 0

\* rank of highest_degree after the loop (0 when it stays None)
HighestRank(education) ==
    LET S == {LevelRank(education[i].degree) :
                 i \in {k \in 1..Len(education) : education[k].degree # NoneStr}}
    IN  IF S = {} THEN 0 ELSE CHOOSE x \in S : \A y \in S : y <= x

\* max_prestige after the loop, in hundredths: only the entries with a degree
\* are looked at
MaxUniversityPrestige(education) ==
    LET S == {get_university_prestige_multiplier(education[i].institution) :
                 i \in {k \in 1..Len(education) : education[k].degree # NoneStr}}
    IN  IF S = {} THEN 100 ELSE CHOOSE x \in S : \A y \in S : y <= x

\* the score of a candidate with education entries, from the rank of the
\* highest degree and max_prestige as the loop leaves them
EducationScore(candidate_rank, max_prestige, j) ==
             IF j.min_education = NoneStr
             THEN LET component_score ==
                          IF candidate_rank > 0
                          THEN RMin(RInt(92),
                                 RAdd(RMin(RInt(80), RInt(50 + candidate_rank * 8)),
                                      RMul(Rat(max_prestige - 100, 100), RInt(20))))
                          ELSE RInt(50)
                  IN  <<Round2(component_score),
                        Round2(RMul(component_score, Rat(WEIGHTS.education, 100)))>>
             ELSE LET min_rank == LevelRank(j.min_education)
                      prestige_boost == RMul(Rat(max_prestige - 100, 100), RInt(15))
                      met == IF j.preferred_education # NoneStr
                                /\ candidate_rank >= LevelRank(j.preferred_education)
                             THEN 93 ELSE 88
                      raw == IF candidate_rank >= min_rank
                             THEN RMin(RInt(98), RAdd(RInt(met), prestige_boost))
                             ELSE RMin(RInt(80),
                                    RAdd(IF min_rank > 0
                                         THEN RMul(Rat(candidate_rank, min_rank), RInt(70))
                                         ELSE RInt(0),
                                         prestige_boost))
                      component_score == Round2(raw)
                  IN  <<component_score, Contribution(component_score, "education")>>

_score_education(cand, j, job_level) ==
    IF Len(cand.education) = 0
    THEN IF j.min_education # NoneStr THEN <<RInt(0), RInt(0)>>
         ELSE <<RInt(50), Round2(RMul(RInt(WEIGHTS.education), Rat(1, 2)))>>
    ELSE EducationScore(HighestRank(cand.education),
                        MaxUniversityPrestige(cand.education), j)

-----------------------------------------------------------------------------
(* ScoringEngine._score_certifications.  Certifications are their names.   *)

_score_certifications(cand, j, job_level) ==
    IF Len(j.required_certifications) = 0
    THEN LET component_score ==
                 IF Len(cand.certifications) > 0
                 THEN RMin(RInt(80), RInt(50 + Len(cand.certifications) * 10))
                 ELSE RInt(50)
         IN  <<Round2(component_score),
               Round2(RMul(component_score, Rat(WEIGHTS.certifications, 100)))>>
    ELSE IF Len(cand.certifications) = 0 THEN <<RInt(0), RInt(0)>>
    ELSE LET candidate_certs ==
                 {Lower(cand.certifications[i]) : i \in 1..Len(cand.certifications)}
             matched ==
                 {r \in 1..Len(j.required_certifications) :
                     \E c \in candidate_certs :
                         RLt(RInt(80), fuzz_ratio(Lower(j.required_certifications[r]), c))}
             component_score ==
                 Round2(RMin(RInt(90),
                     RMul(Rat(Cardinality(matched), Len(j.required_certifications)),
                          RInt(90))))
         IN  <<component_score, Contribution(component_score, "certifications")>>

-----------------------------------------------------------------------------
(* ScoringEngine._score_stability.                                         *)

\* tenures: the durations that are set
RECURSIVE Tenures(_)
Tenures(work_experience) ==
    IF Len(work_experience) = 0 THEN <<>>
    ELSE IF Head(work_experience).duration_months # 0
         THEN <<Head(work_experience).duration_months>> \o Tenures(Tail(work_experience))
         ELSE Tenures(Tail(work_experience))

\* sum(tenures)
RECURSIVE Sum(_)
Sum(tenures) == IF Len(tenures) = 0 THEN 0 ELSE Head(tenures) + Sum(Tail(tenures))

\* the five tenure bands and the job-hopping penalty
TenureScore(tenures) ==
    LET avg_tenure_years == Rat(Sum(tenures), 12 * Len(tenures))
        banded ==
            IF RLe(RInt(4), avg_tenure_years) THEN RInt(90)
            ELSE IF RLe(RInt(3), avg_tenure_years) THEN RInt(85)
            ELSE IF RLe(RInt(2), avg_tenure_years) THEN RInt(75)
            ELSE IF RLe(RInt(1), avg_tenure_years)
            THEN RAdd(RInt(60), RMul(RSub(avg_tenure_years, RInt(1)), RInt(15)))
            ELSE RMul(avg_tenure_years, RInt(60))
        short_stints == Cardinality({i \in 1..Len(tenures) : tenures[i] < 12})
    IN  IF short_stints >= 3 THEN RMul(banded, Rat(7, 10)) ELSE banded

_score_stability(cand, job_level) ==
    LET we == cand.work_experience
    IN  IF Len(we) < 2
        THEN IF job_level \in {"intern", "entry"}
             THEN <<RInt(85), Round2(RMul(RInt(WEIGHTS.stability), Rat(85, 100)))>>
             ELSE <<RInt(75), Round2(RMul(RInt(WEIGHTS.stability), Rat(75, 100)))>>
        ELSE IF job_level \in {"intern", "entry"} \/ AllShortStints(we)
        THEN LET component_score == IF Len(we) >= 2 THEN RInt(85) ELSE RInt(80)
             IN  <<component_score, Contribution(component_score, "stability")>>
        ELSE IF Len(Tenures(we)) = 0
        THEN <<RInt(75), Round2(RMul(RInt(WEIGHTS.stability), Rat(75, 100)))>>
        ELSE LET component_score == Round2(TenureScore(Tenures(we)))
             IN  <<component_score, Contribution(component_score, "stability")>>

-----------------------------------------------------------------------------
(* ScoringEngine._generate_flags.  A flag is [type, severity, gap_months]; *)
(* gap_months is the number the description of an employment_gap flag      *)
(* carries and 0 for the other flags.                                      *)

DateMin == <<1, 1, 1>>

DateLe(a, b) ==
    \/ a[1] < b[1]
    \/ a[1] = b[1] /\ a[2] < b[2]
    \/ a[1] = b[1] /\ a[2] = b[2] /\ a[3] <= b[3]

SortKey(w) == IF w.start_date # None THEN w.start_date ELSE DateMin

\* insert w after the last element whose key is <= w's key (a stable sort)
RECURSIVE InsertSorted(_, _)
InsertSorted(sorted, w) ==
    IF Len(sorted) = 0 THEN <<w>>
    ELSE IF DateLe(SortKey(sorted[Len(sorted)]), SortKey(w)) THEN Append(sorted, w)
    ELSE Append(InsertSorted(SubSeq(sorted, 1, Len(sorted) - 1), w), sorted[Len(sorted)])

\* sorted(candidate.work_experience, key=lambda w: w.start_date or date.min)
RECURSIVE SortedWork(_, _)
SortedWork(work_experience, acc) ==
    IF Len(work_experience) = 0 THEN acc
    ELSE SortedWork(Tail(work_experience), InsertSorted(acc, Head(work_experience)))

GapMonths(current, next_job) ==
    (next_job.start_date[1] - current.end_date[1]) * 12
        + (next_job.start_date[2] - current.end_date[2])

\* the loop over adjacent roles without its break: one flag for every gap
RECURSIVE GapFlagsNoBreak(_, _)
GapFlagsNoBreak(sorted_work, i) ==
    IF i > Len(sorted_work) - 1 THEN <<>>
    ELSE LET current == sorted_work[i]
             next_job == sorted_work[i + 1]
         IN  (IF /\ current.end_date # None
                 /\ next_job.start_date # None
                 /\ GapMonths(current, next_job) > 6
              THEN << [type |-> "employment_gap", severity |-> "low",
                       gap_months |-> GapMonths(current, next_job)] >>
              ELSE <<>>)
             \o GapFlagsNoBreak(sorted_work, i + 1)

\* the loop over adjacent roles: the flags it appends, leaving at the break
RECURSIVE GapFlags(_, _)
GapFlags(sorted_work, i) ==
    IF i > Len(sorted_work) - 1 THEN <<>>
    ELSE LET current == sorted_work[i]
             next_job == sorted_work[i + 1]
         IN  IF /\ current.end_date # None
                /\ next_job.start_date # None
                /\ GapMonths(current, next_job) > 6
             THEN << [type |-> "employment_gap", severity |-> "low",
                      gap_months |-> GapMonths(current, next_job)] >>
             ELSE GapFlags(sorted_work, i + 1)

_generate_flags(cand, j, skills_score, exp_score, stability_score) ==
    (IF RLt(skills_score, RInt(60))
     THEN << [type |-> "missing_required_skills", severity |-> "high", gap_months |-> 0] >>
     ELSE <<>>)
    \o (IF RLt(exp_score, RInt(50))
        THEN << [type |-> "insufficient_experience", severity |-> "medium",
                 gap_months |-> 0] >>
        ELSE <<>>)
    \o (IF RLt(stability_score, RInt(60))
        THEN << [type |-> "tenure_volatility", severity |-> "medium", gap_months |-> 0] >>
        ELSE <<>>)
    \o GapFlags(SortedWork(cand.work_experience, <<>>), 1)

-----------------------------------------------------------------------------
(* ScoringEngine.score and the validation of the result models.            *)

InRange(x) == RLe(RInt(0), x) /\ RLe(x, RInt(100))

\* The locals of score() once the five scorers have returned: component
\* scores, contributions, overall and flags, or the exception a scorer raised.
ScoreLocals(cand, j, weights_arg, current_year) ==
    LET weights == IF weights_arg = None THEN WEIGHTS ELSE weights_arg
        job_level == _detect_job_level(j)
        skills == _score_skills(cand, j, job_level)
        exp == _score_experience(cand, j, job_level, current_year)
        edu == _score_education(cand, j, job_level)
        cert == _score_certifications(cand, j, job_level)
        stab == _score_stability(cand, job_level)
    IN  IF IsRaised(exp) THEN [raised |-> exp[1]]
        ELSE [raised |-> NoneStr,
              skills_score |-> skills[1], skills_contrib |-> skills[2],
              exp_score |-> exp[1], exp_contrib |-> exp[2],
              edu_score |-> edu[1], edu_contrib |-> edu[2],
              cert_score |-> cert[1], cert_contrib |-> cert[2],
              stability_score |-> stab[1], stability_contrib |-> stab[2],
              overall |->
                  RAdd(RMul(skills[1], Rat(weights.skills, 100)),
                  RAdd(RMul(exp[1], Rat(weights.experience, 100)),
                  RAdd(RMul(edu[1], Rat(weights.education, 100)),
                  RAdd(RMul(cert[1], Rat(weights.certifications, 100)),
                       RMul(stab[1], Rat(weights.stability, 100)))))),
              flags |-> _generate_flags(cand, j, skills[1], exp[1], stab[1])]

\* ScoreBreakdown(...): Field(ge=0.0, le=100.0) on the five component scores
ScoreBreakdown(l) ==
    IF /\ InRange(Round2(l.skills_score))
       /\ InRange(Round2(l.exp_score))
       /\ InRange(Round2(l.edu_score))
       /\ InRange(Round2(l.cert_score))
       /\ InRange(Round2(l.stability_score))
    THEN [raised |-> NoneStr,
          skills_score |-> Round2(l.skills_score),
          experience_score |-> Round2(l.exp_score),
          education_score |-> Round2(l.edu_score),
          certifications_score |-> Round2(l.cert_score),
          stability_score |-> Round2(l.stability_score),
          skills_contribution |-> Round2(l.skills_contrib),
          experience_contribution |-> Round2(l.exp_contrib),
          education_contribution |-> Round2(l.edu_contrib),
          certifications_contribution |-> Round2(l.cert_contrib),
          stability_contribution |-> Round2(l.stability_contrib)]
    ELSE [raised |-> "ValidationError"]

\* ScoringResult(...): Field(ge=0.0, le=100.0) on overall_score
ScoringResult(overall_score, breakdown, rationale, flags, scoring_mode, llm_adjustment) ==
    IF InRange(overall_score)
    THEN [raised |-> NoneStr,
          overall_score |-> overall_score,
          breakdown |-> breakdown,
          rationale |-> rationale,
          flags |-> flags,
          mode |-> scoring_mode,
          llm_adjustment |-> llm_adjustment,
          model_version |-> MODEL_VERSION,
          rules_version |-> RULES_VERSION]
    ELSE [raised |-> "ValidationError"]

\* the end of score(): the breakdown and the result are built from the locals
BuildResult(l) ==
    IF l.raised # NoneStr THEN [raised |-> l.raised]
    ELSE LET breakdown == ScoreBreakdown(l)
         IN  IF breakdown.raised # NoneStr THEN [raised |-> breakdown.raised]
             ELSE ScoringResult(Round2(l.overall), breakdown, NoneStr, l.flags,
                                "baseline", None)

\* ScoringEngine.score: the ScoringResult, or [raised |-> the exception]
score(cand, j, weights_arg, current_year) ==
    BuildResult(ScoreLocals(cand, j, weights_arg, current_year))

-----------------------------------------------------------------------------
(* LLMScorer.enhance_score.  The response of the LLM call is               *)
(* [ok, score_adjustment, flags]; ok = FALSE is a call that raised (an     *)
(* error, a timeout, a response that does not parse).                      *)


\* RiskFlag(**flag_data): type, severity and description are required (the
\* description is the gap_months of the model's flags)
ValidFlag(flag_data) == {"type", "severity", "gap_months"} \subseteq DOMAIN flag_data

\* the try block of enhance_score raises: the call did, or a flag of the
\* response is not a RiskFlag
LLMFailed(llm_response) ==
    \/ ~llm_response.ok
    \/ \E i \in DOMAIN llm_response.flags : ~ValidFlag(llm_response.flags[i])

\* enhance_score with all_flags = baseline_result.flags instead of its copy:
\* the flags appended before the failure stay on the baseline result
enhance_score_no_copy(baseline_result, llm_response) ==
    IF LLMFailed(llm_response)
    THEN [baseline_result EXCEPT
              !.rationale = "[LLM unavailable]",
              !.llm_adjustment = RInt(0),
              !.flags = IF llm_response.ok
                        THEN @ \o SelectSeq(llm_response.flags, ValidFlag)
                        ELSE @]
    ELSE LET adjustment == Max(-10, Min(10, llm_response.score_adjustment))
             adjusted_score ==
                 RMax(RInt(0), RMin(RInt(100),
                      RAdd(baseline_result.overall_score, RInt(adjustment))))
         IN  ScoringResult(Round1(adjusted_score), baseline_result.breakdown,
                           "llm rationale",
                           baseline_result.flags \o llm_response.flags,
                           "llm", RInt(adjustment))

enhance_score(baseline_result, llm_response) ==
    IF LLMFailed(llm_response)
    THEN [baseline_result EXCEPT !.rationale = "[LLM unavailable]",
                                 !.llm_adjustment = RInt(0)]
    ELSE LET adjustment == Max(-10, Min(10, llm_response.score_adjustment))
             adjusted_score ==
                 RMax(RInt(0), RMin(RInt(100),
                      RAdd(baseline_result.overall_score, RInt(adjustment))))
         IN  ScoringResult(Round1(adjusted_score), baseline_result.breakdown,
                           "llm rationale",
                           baseline_result.flags \o llm_response.flags,
                           "llm", RInt(adjustment))

-----------------------------------------------------------------------------
(* The text of a CV.  A text is a string; U+2022 (the bullet) and U+2013   *)
(* (the en dash) are written with the one-character stand-ins below.       *)

Bullet == "^"
EnDash == "~"

Digits == "0123456789"

IsDigit(c) == \E i \in 1..Len(Digits) : CharAt(Digits, i) = c

DigitValue(c) == (CHOOSE i \in 1..Len(Digits) : CharAt(Digits, i) = c) - 1

IsLetter(c) == \E i \in 1..Len(LowerChars) : CharAt(LowerChars, i) = LowerChar(c)

\* \w of a regular expression
IsWordChar(c) == IsLetter(c) \/ IsDigit(c) \/ c = "_"

\* s[i:j], with positions from 1 and j exclusive
Slice(s, i, j) ==
    IF j <= i \/ i > Len(s) THEN "" ELSE SubSeq(s, i, Min(j - 1, Len(s)))

\* s.split(sep), for a separator of one character
Split(s, sep) ==
    LET at == {i \in 1..Len(s) : CharAt(s, i) = sep}
        n == Cardinality(at)
        \* the position of the k-th separator; 0 and Len(s) + 1 at the ends
        cut(k) == IF k = 0 THEN 0
                  ELSE IF k = n + 1 THEN Len(s) + 1
                  ELSE CHOOSE i \in at : Cardinality({j \in at : j < i}) = k - 1
    IN  [k \in 1..(n + 1) |-> Slice(s, cut(k - 1) + 1, cut(k))]

\* sep.join(parts)
RECURSIVE Join(_, _)
Join(parts, sep) ==
    IF Len(parts) = 0 THEN ""
    ELSE IF Len(parts) = 1 THEN parts[1]
    ELSE parts[1] \o sep \o Join(Tail(parts), sep)

\* the first position from i on that holds no whitespace (\s*)
RECURSIVE SkipSpaces(_, _)
SkipSpaces(s, i) ==
    IF i <= Len(s) /\ IsSpace(CharAt(s, i)) THEN SkipSpaces(s, i + 1) ELSE i

\* the first position from i on that holds no letter ([a-z]*, ignoring case)
RECURSIVE SkipLetters(_, _)
SkipLetters(s, i) ==
    IF i <= Len(s) /\ IsLetter(CharAt(s, i)) THEN SkipLetters(s, i + 1) ELSE i

\* the first position from i on that holds whitespace
RECURSIVE SkipWord(_, _)
SkipWord(s, i) ==
    IF i <= Len(s) /\ ~IsSpace(CharAt(s, i)) THEN SkipWord(s, i + 1) ELSE i

\* s.split(): the words between runs of whitespace
RECURSIVE WordsFrom(_, _)
WordsFrom(s, i) ==
    LET b == SkipSpaces(s, i)
        e == SkipWord(s, b)
    IN  IF b > Len(s) THEN <<>> ELSE <<Slice(s, b, e)>> \o WordsFrom(s, e)

Words(s) == WordsFrom(s, 1)

\* [l.strip() for l in lines if l.strip()]
RECURSIVE StrippedLines(_)
StrippedLines(lines) ==
    IF Len(lines) = 0 THEN <<>>
    ELSE IF Strip(Head(lines)) = "" THEN StrippedLines(Tail(lines))
    ELSE <<Strip(Head(lines))>> \o StrippedLines(Tail(lines))

-----------------------------------------------------------------------------
(* The date patterns of the parser and dateparser.parse.                   *)

MonthAbbreviations ==
    <<"jan", "feb", "mar", "apr", "may", "jun", "jul", "aug", "sep", "oct", "nov", "dec">>

MonthNames ==
    <<"january", "february", "march", "april", "may", "june", "july", "august",
      "september", "october", "november", "december">>

\* (?:Jan|Feb|...|Dec) at position i, ignoring case: the month's number, or 0
MonthAt(s, i) ==
    LET found == {k \in 1..12 : Lower(Slice(s, i, i + 3)) = MonthAbbreviations[k]}
    IN  IF i + 2 <= Len(s) /\ found # {} THEN CHOOSE k \in found : TRUE ELSE 0

NoMatch == [ok |-> FALSE]

\* \d{4} at position i
FourDigits(s, i) ==
    i + 3 <= Len(s) /\ \A k \in i..(i + 3) : IsDigit(CharAt(s, k))

YearAt(s, i) ==
    DigitValue(CharAt(s, i)) * 1000 + DigitValue(CharAt(s, i + 1)) * 100
        + DigitValue(CharAt(s, i + 2)) * 10 + DigitValue(CharAt(s, i + 3))

\* (?:Jan|...|Dec)[a-z]*\s+\d{4} at position i; without [a-z]* when ~letters
MonthYearAt(s, i, letters) ==
    LET Match(word_end, year_at) ==
            IF MonthAt(s, i) # 0 /\ year_at > word_end /\ FourDigits(s, year_at)
            THEN [ok |-> TRUE, start |-> i, stop |-> year_at + 4,
                  text |-> Slice(s, i, year_at + 4)]
            ELSE NoMatch
        Year(word_end) == Match(word_end, SkipSpaces(s, word_end))
    IN  Year(IF letters THEN SkipLetters(s, i + 3) ELSE i + 3)

\* \s*[-–]\s* at position i: the position after it, or 0
DashAt(s, i) ==
    LET dash == SkipSpaces(s, i)
    IN  IF dash <= Len(s) /\ CharAt(s, dash) \in {"-", EnDash}
        THEN SkipSpaces(s, dash + 1) ELSE 0

PresentAt(s, i) == Lower(Slice(s, i, i + 7)) \in {"present", "current"} /\ i + 6 <= Len(s)

\* range_pattern (and date_pattern of _parse_work_entry) at position i:
\* the groups start and end of the match
RangeAt(s, i) ==
    LET To(first, second) ==
            IF second.ok
            THEN [ok |-> TRUE, start |-> i, stop |-> second.stop,
                  start_str |-> first.text, end_str |-> second.text]
            ELSE NoMatch
        End(first, after) ==
            IF after = 0 THEN NoMatch
            ELSE IF PresentAt(s, after)
            THEN [ok |-> TRUE, start |-> i, stop |-> after + 7,
                  start_str |-> first.text, end_str |-> Slice(s, after, after + 7)]
            ELSE To(first, MonthYearAt(s, after, TRUE))
        Start(first) == IF first.ok THEN End(first, DashAt(s, first.stop)) ELSE NoMatch
    IN  Start(MonthYearAt(s, i, TRUE))

\* re.search(range_pattern, s) from position i on: the leftmost match
RECURSIVE SearchRange(_, _)
SearchRange(s, i) ==
    LET OrLater(match) == IF match.ok THEN match ELSE SearchRange(s, i + 1)
    IN  IF i > Len(s) THEN NoMatch ELSE OrLater(RangeAt(s, i))

\* re.finditer(range_pattern, s): the matches, left to right
RECURSIVE FindRanges(_, _)
FindRanges(s, i) ==
    LET AndLater(found) ==
            IF found.ok THEN <<found>> \o FindRanges(s, found.stop) ELSE <<>>
    IN  AndLater(SearchRange(s, i))

\* the pattern of _extract_work_experience: an abbreviated month, a year, a
\* dash and Present, Current or a month; found anywhere in the line
has_date_range(line) ==
    LET End(after) == after # 0 /\ (PresentAt(line, after) \/ MonthAt(line, after) # 0)
        Start(first) == first.ok /\ End(DashAt(line, first.stop))
    IN  \E i \in 1..Len(line) : Start(MonthYearAt(line, i, FALSE))

IsLeapYear(y) == (y % 4 = 0 /\ y % 100 # 0) \/ y % 400 = 0

DaysInMonth(y, mo) ==
    IF mo = 2 THEN (IF IsLeapYear(y) THEN 29 ELSE 28)
    ELSE IF mo \in {4, 6, 9, 11} THEN 30 ELSE 31

\* dateparser.parse of a "Month YYYY" string at date now: the month by its
\* name or abbreviation, the missing day taken from now (PREFER_DAY_OF_MONTH
\* is 'current'); None for a word that names no month
dateparser_parse(date_string, now) ==
    LET Date(y, mo) == <<y, mo, Min(now[3], DaysInMonth(y, mo))>>
        Month(words, name, months) ==
            IF Len(words) # 2 \/ (months = {} /\ name # "sept") THEN None
            ELSE Date(YearAt(words[2], 1),
                      IF name = "sept" THEN 9 ELSE CHOOSE k \in months : TRUE)
        Name(words, name) ==
            Month(words, name,
                  {k \in 1..12 : name \in {MonthAbbreviations[k], MonthNames[k]}})
        Parse(words) == Name(words, Lower(words[1]))
    IN  Parse(Words(date_string))

\* dateparser.parse of the strings the fallback patterns find, "M/YYYY" and
\* "YYYY": what the string leaves out is taken from now
dateparser_parse_numeric(date_string, now) ==
    LET Date(y, mo) == <<y, mo, Min(now[3], DaysInMonth(y, mo))>>
        MonthOf(digits) ==
            IF Len(digits) = 1 THEN DigitValue(digits)
            ELSE DigitValue(CharAt(digits, 1)) * 10 + DigitValue(CharAt(digits, 2))
        MonthAndYear(parts, mo) ==
            IF mo \in 1..12 THEN Date(YearAt(parts[2], 1), mo) ELSE None
        Parse(parts) ==
            IF Len(parts) = 1 THEN Date(YearAt(date_string, 1), now[2])
            ELSE MonthAndYear(parts, MonthOf(parts[1]))
    IN  Parse(Split(date_string, "/"))

\* \b at position i of s
WordBoundary(s, i) ==
    LET before == i > 1 /\ IsWordChar(CharAt(s, i - 1))
        after == i <= Len(s) /\ IsWordChar(CharAt(s, i))
    IN  before # after

\* if parsed and 1990 <= parsed.year <= 2030: dates.append(parsed.date())
Accepted(parsed_date) ==
    IF parsed_date # None /\ 1990 <= parsed_date[1] /\ parsed_date[1] <= 2030
    THEN <<parsed_date>> ELSE <<>>

\* the dates that the matches of range_pattern append
RECURSIVE RangeDates(_, _)
RangeDates(matches, now) ==
    IF Len(matches) = 0 THEN <<>>
    ELSE LET match == Head(matches)
         IN  Accepted(dateparser_parse(match.start_str, now))
             \o (IF Lower(match.end_str) \notin {"present", "current"}
                 THEN Accepted(dateparser_parse(match.end_str, now))
                 ELSE <<>>)
             \o RangeDates(Tail(matches), now)

\* the dates of the first fallback pattern, \bMon[a-z]*\s+\d{4}\b
RECURSIVE MonthYearDates(_, _, _)
MonthYearDates(s, i, now) ==
    LET AndLater(found) ==
            IF WordBoundary(s, i) /\ found.ok /\ WordBoundary(s, found.stop)
            THEN Accepted(dateparser_parse(found.text, now))
                 \o MonthYearDates(s, found.stop, now)
            ELSE MonthYearDates(s, i + 1, now)
    IN  IF i > Len(s) THEN <<>> ELSE AndLater(MonthYearAt(s, i, TRUE))

\* \d{1,2}/\d{4}\b at position i: the position after the match, or 0
SlashDateAt(s, i) ==
    LET two == /\ i + 2 <= Len(s) /\ IsDigit(CharAt(s, i)) /\ IsDigit(CharAt(s, i + 1))
               /\ CharAt(s, i + 2) = "/" /\ FourDigits(s, i + 3)
               /\ WordBoundary(s, i + 7)
        one == /\ i + 1 <= Len(s) /\ IsDigit(CharAt(s, i)) /\ CharAt(s, i + 1) = "/"
               /\ FourDigits(s, i + 2) /\ WordBoundary(s, i + 6)
    IN  IF two THEN i + 7 ELSE IF one THEN i + 6 ELSE 0

\* the dates of the second fallback pattern, \b\d{1,2}/\d{4}\b
RECURSIVE SlashDates(_, _, _)
SlashDates(s, i, now) ==
    LET AndLater(stop) ==
            IF stop # 0
            THEN Accepted(dateparser_parse_numeric(Slice(s, i, stop), now))
                 \o SlashDates(s, stop, now)
            ELSE SlashDates(s, i + 1, now)
    IN  IF i > Len(s) THEN <<>>
        ELSE AndLater(IF WordBoundary(s, i) THEN SlashDateAt(s, i) ELSE 0)

\* the dates of the third fallback pattern, \b\d{4}\b
RECURSIVE YearDates(_, _, _)
YearDates(s, i, now) ==
    IF i > Len(s) THEN <<>>
    ELSE IF WordBoundary(s, i) /\ FourDigits(s, i) /\ WordBoundary(s, i + 4)
         THEN Accepted(dateparser_parse_numeric(Slice(s, i, i + 4), now))
              \o YearDates(s, i + 4, now)
         ELSE YearDates(s, i + 1, now)

DateLt(a, b) ==
    \/ a[1] < b[1]
    \/ a[1] = b[1] /\ a[2] < b[2]
    \/ a[1] = b[1] /\ a[2] = b[2] /\ a[3] < b[3]

\* sorted(set(dates))
RECURSIVE SortedDates(_)
SortedDates(S) ==
    IF S = {} THEN <<>>
    ELSE LET first == CHOOSE d \in S : \A e \in S : e = d \/ DateLt(d, e)
         IN  <<first>> \o SortedDates(S \ {first})

\* CVParser._extract_dates, called at date now
_extract_dates(text, now) ==
    LET FirstTwo(dates) == SubSeq(dates, 1, Min(2, Len(dates)))
        Fallback(dates) == FirstTwo(SortedDates({dates[k] : k \in 1..Len(dates)}))
        Dates(dates) ==
            IF Len(dates) >= 1 THEN FirstTwo(dates)
            ELSE Fallback(MonthYearDates(text, 1, now) \o SlashDates(text, 1, now)
                              \o YearDates(text, 1, now))
    IN  Dates(RangeDates(FindRanges(text, 1), now))

-----------------------------------------------------------------------------
(* CVParser._parse_work_entry.  A WorkExperience is [employer, title,      *)
(* start_date, end_date, duration_months, bullets, inferred_seniority,     *)
(* confidence], confidence in hundredths and duration_months 0 for None.   *)

seniority_keywords ==
    << <<"junior", <<"junior", "jr", "associate", "entry", "trainee">> >>,
       <<"mid", <<"developer", "engineer", "analyst", "specialist", "consultant">> >>,
       <<"senior", <<"senior", "sr", "lead", "principal", "staff">> >>,
       <<"lead", <<"head", "director", "vp", "chief", "cto", "cio", "manager",
                   "team lead">> >> >>

\* the first level, in the order of the dict, one of whose keywords is in the
\* title; 'mid' when there is none
_infer_seniority(title) ==
    LET title_lower == Lower(title)
        hits == {k \in 1..Len(seniority_keywords) :
                    AnyKeywordIn(seniority_keywords[k][2], title_lower)}
    IN  IF hits = {} THEN "mid"
        ELSE seniority_keywords[CHOOSE k \in hits : \A h \in hits : k <= h][1]

\* line.startswith(('•', '-', '*', '–'))
StartsWithBullet(line) == Len(line) > 0 /\ CharAt(line, 1) \in {Bullet, "-", "*", EnDash}

\* the loop over lines[:4], from index i (counted from 0) with the title and
\* company found so far ("" for None): what it leaves when it ends
RECURSIVE ScanEntry(_, _, _, _)
ScanEntry(lines, i, title, company) ==
    LET Found(line, date_match, line_before_date) ==
            IF StartsWithBullet(line)
            THEN [title |-> title, company |-> company, date_line |-> NoneStr,
                  bullet_start_idx |-> i]
            ELSE IF date_match.ok
            THEN IF i = 0
                 THEN [title |-> lines[2],
                       company |-> IF line_before_date # "" THEN line_before_date
                                   ELSE Words(line)[1],
                       date_line |-> line, bullet_start_idx |-> 2]
                 ELSE IF i = 1
                 THEN [title |-> IF line_before_date # "" THEN line_before_date
                                 ELSE "Unknown Position",
                       company |-> IF company = "" THEN lines[1] ELSE company,
                       date_line |-> line, bullet_start_idx |-> 2]
                 ELSE [title |-> IF title = "" THEN lines[1] ELSE title,
                       company |-> IF company = "" THEN lines[2] ELSE company,
                       date_line |-> line, bullet_start_idx |-> i + 1]
            ELSE IF title = "" THEN ScanEntry(lines, i + 1, line, company)
            ELSE IF company = "" THEN ScanEntry(lines, i + 1, title, line)
            ELSE ScanEntry(lines, i + 1, title, company)
        Searched(line, date_match) ==
            Found(line, date_match, Strip(Slice(line, 1, date_match.start)))
    IN  IF i >= Len(lines) \/ i >= 4
        THEN [title |-> title, company |-> company, date_line |-> NoneStr,
              bullet_start_idx |-> 0]
        ELSE Searched(lines[i + 1], SearchRange(lines[i + 1], 1))

\* the first position of two whitespace characters in a row, or 0
TwoSpacesAt(s) ==
    LET at == {k \in 1..(Len(s) - 1) : IsSpace(CharAt(s, k)) /\ IsSpace(CharAt(s, k + 1))}
    IN  IF at = {} THEN 0 ELSE CHOOSE k \in at : \A h \in at : k <= h

\* Clean company (remove location info)
CleanCompany(company) ==
    IF Contains(",", company) THEN Strip(Split(company, ",")[1])
    ELSE IF Contains("  ", company) THEN Strip(Slice(company, 1, TwoSpacesAt(company)))
    ELSE Strip(company)

\* re.sub(r'^[•\-*–]\s*', '', l).strip()
CleanBullet(l) ==
    IF StartsWithBullet(l) THEN Strip(Slice(l, SkipSpaces(l, 2), Len(l) + 1)) ELSE Strip(l)

\* re.match(r'^(?:Jan|Feb|...|Dec)', clean), which minds the case
StartsWithMonth(clean) ==
    \E k \in 1..12 :
        /\ Lower(Slice(clean, 1, 4)) = MonthAbbreviations[k]
        /\ CharAt(clean, 1) # LowerChar(CharAt(clean, 1))
        /\ Slice(clean, 2, 4) = Lower(Slice(clean, 2, 4))

RECURSIVE Bullets(_)
Bullets(lines) ==
    LET Kept(clean) ==
            IF clean # "" /\ Len(clean) > 15 /\ ~StartsWithMonth(clean)
            THEN <<clean>> ELSE <<>>
    IN  IF Len(lines) = 0 THEN <<>>
        ELSE Kept(CleanBullet(Head(lines))) \o Bullets(Tail(lines))

\* (end.year - start_date.year) * 12 + (end.month - start_date.month)
MonthsBetween(start_date, end) == (end[1] - start_date[1]) * 12 + (end[2] - start_date[2])

\* at least 1 month
AtLeastOne(duration_months) == Max(1, duration_months)

\* CVParser._parse_work_entry at date now: the WorkExperience, or None
_parse_work_entry(entry, now) ==
    LET WorkExperience(title, company_clean, dates, start_date, end_date, bullets) ==
            [employer |-> Slice(company_clean, 1, 201),
             title |-> Slice(title, 1, 201),
             start_date |-> start_date,
             end_date |-> end_date,
             duration_months |->
                 IF start_date # None
                 THEN AtLeastOne(MonthsBetween(start_date,
                                               IF end_date # None THEN end_date
                                               ELSE now))
                 ELSE 0,
             bullets |-> SubSeq(bullets, 1, Min(10, Len(bullets))),
             inferred_seniority |-> _infer_seniority(title),
             confidence |->
                 Min(95, 50 + (IF Len(dates) >= 2 THEN 20 ELSE 0)
                            + (IF Len(bullets) > 0 THEN 15 ELSE 0)
                            + (IF company_clean # "Unknown Company" THEN 15 ELSE 0))]
        Dated(title, company_clean, dates, bullets) ==
            WorkExperience(title, company_clean, dates,
                           IF Len(dates) > 0 THEN dates[1] ELSE None,
                           IF Len(dates) > 1 THEN dates[2] ELSE None,
                           bullets)
        Scanned(lines, found) ==
            Dated(IF found.title = "" THEN lines[1] ELSE found.title,
                  CleanCompany(IF found.company = "" THEN lines[2] ELSE found.company),
                  _extract_dates(IF found.date_line # NoneStr THEN found.date_line
                                 ELSE entry, now),
                  Bullets(SubSeq(lines, found.bullet_start_idx + 1, Len(lines))))
        Parse(lines) ==
            IF Len(lines) < 2 THEN None ELSE Scanned(lines, ScanEntry(lines, 0, "", ""))
    IN  Parse(StrippedLines(Split(entry, "\n")))

-----------------------------------------------------------------------------
(* The section headers and CVParser._extract_work_experience.              *)
(* Every section pattern is anchored to the start and the end of a line    *)
(* and takes whitespace freely around the header, so a text is searched    *)
(* line by line: a header is a line that, stripped, lowered and with one   *)
(* space between its words, is one of the spellings below, a colon after   *)
(* it or not.                                                              *)

ExperienceWords ==
    {"experience", "employment", "career", "professional background",
     "professional experience", "professional history", "work history", "workhistory"}

section_patterns ==
    [experience |->
         {p \o w \o s : p \in {"", "work "}, w \in ExperienceWords, s \in {"", "s"}},
     education |->
         {"education", "academic", "academic background", "academic history",
          "academicbackground", "academichistory", "qualifications", "degree",
          "degrees", "training"},
     skills |->
         {p \o "skills" : p \in {"", "key", "core", "technical", "professional",
                                 "key ", "core ", "technical ", "professional "}}
             \cup {"competencies", "competency", "expertise", "technologies",
                   "proficiencies", "additional information"},
     certifications |->
         {"certification", "certifications", "license", "licenses", "credentials",
          "accreditation", "accreditations", "professional development"},
     languages |->
         {"language", "languages", "language skills", "language proficiency"}]

SectionNames == {"experience", "education", "skills", "certifications", "languages"}

\* the line without the colon that may end it, lowered, one space between words
HeaderText(line) ==
    LET Body(stripped) ==
            IF Len(stripped) > 0 /\ CharAt(stripped, Len(stripped)) = ":"
            THEN Slice(stripped, 1, Len(stripped)) ELSE stripped
    IN  Lower(Join(Words(Body(Strip(line))), " "))

\* the pattern of the section matches at this line
IsHeader(name, line) == HeaderText(line) \in section_patterns[name]

IsAnyHeader(line) ==
    LET Known(header) == \E name \in SectionNames : header \in section_patterns[name]
    IN  Known(HeaderText(line))

\* the index of the first line from index i on that satisfies the pattern of
\* the section, or 0
FirstHeader(name, lines, i) ==
    LET at == {k \in i..Len(lines) : IsHeader(name, lines[k])}
    IN  IF at = {} THEN 0 ELSE CHOOSE k \in at : \A h \in at : k <= h

\* CVParser._extract_section for the section whose header is line h: the lines
\* up to the next header of any section.  A next header with only blank lines
\* before it matches at position 0 of the remaining text, and 0 is false in
\* `if next_section:`, so the whole remaining text is returned.
_extract_section(lines, h) ==
    LET Section(remaining, next_section) ==
            IF next_section # -1 /\ next_section # 0
            THEN SubSeq(remaining, 1, next_section)
            ELSE remaining
        \* match.start() as a count of lines; -1 for None
        Upto(remaining, next_line) ==
            Section(remaining,
                    IF next_line = 0 THEN -1
                    ELSE IF \A k \in 1..(next_line - 1) : Strip(remaining[k]) = ""
                    THEN 0
                    ELSE next_line - 1)
        Headers(remaining, at) ==
            Upto(remaining,
                 IF at = {} THEN 0 ELSE CHOOSE k \in at : \A j \in at : k <= j)
        Remaining(remaining) ==
            Headers(remaining, {k \in 1..Len(remaining) : IsAnyHeader(remaining[k])})
    IN  Remaining(SubSeq(lines, h + 1, Len(lines)))

\* the loop of _extract_work_experience that cuts the section into blocks
RECURSIVE Blocks(_, _)
Blocks(lines, current_block) ==
    LET Closed == IF Len(current_block) > 0 THEN <<Join(current_block, "\n")>> ELSE <<>>
        Line(line, last_line) ==
            IF line = "" THEN Closed \o Blocks(Tail(lines), <<>>)
            ELSE IF /\ has_date_range(line)
                    /\ Len(current_block) > 0
                    /\ ~(CharAt(last_line, 1) \in {Bullet, "-", "*"})
            THEN Closed \o Blocks(Tail(lines), <<line>>)
            ELSE Blocks(Tail(lines), Append(current_block, line))
    IN  IF Len(lines) = 0 THEN Closed
        ELSE Line(Strip(Head(lines)), current_block[Len(current_block)])

\* the loop that parses each entry of more than 30 characters
RECURSIVE ParseEntries(_, _)
ParseEntries(entries, now) ==
    LET Kept(work) == IF work # None THEN <<work>> ELSE <<>>
        Entry(entry_text) ==
            Kept(IF Len(Strip(entry_text)) > 30
                 THEN _parse_work_entry(entry_text, now) ELSE None)
    IN  IF Len(entries) = 0 THEN <<>>
        ELSE Entry(Head(entries)) \o ParseEntries(Tail(entries), now)

\* CVParser._extract_work_experience at date now
_extract_work_experience(text, now) ==
    LET FirstTen(work_list) == SubSeq(work_list, 1, Min(10, Len(work_list)))
        Section(lines, exp_match) ==
            IF exp_match = 0 THEN <<>>
            ELSE FirstTen(ParseEntries(Blocks(_extract_section(lines, exp_match), <<>>),
                                       now))
        Lines(lines) == Section(lines, FirstHeader("experience", lines, 1))
    IN  Lines(Split(text, "\n"))

-----------------------------------------------------------------------------
(* Contact information and CVParser.parse_file.                            *)

\* [A-Za-z0-9._%+-], [A-Za-z0-9.-] and [A-Z|a-z] of email_pattern
IsLocalChar(c) == IsLetter(c) \/ IsDigit(c) \/ c \in {".", "_", "%", "+", "-"}
IsDomainChar(c) == IsLetter(c) \/ IsDigit(c) \/ c \in {".", "-"}
IsTldChar(c) == IsLetter(c) \/ c = "|"

\* where the run of local characters that ends before position i begins
RECURSIVE LocalStart(_, _)
LocalStart(s, i) ==
    IF i > 1 /\ IsLocalChar(CharAt(s, i - 1)) THEN LocalStart(s, i - 1) ELSE i

\* where the run of domain characters that begins at position i ends
RECURSIVE DomainStop(_, _)
DomainStop(s, i) ==
    IF i <= Len(s) /\ IsDomainChar(CharAt(s, i)) THEN DomainStop(s, i + 1) ELSE i

RECURSIVE TldStop(_, _)
TldStop(s, i) ==
    IF i <= Len(s) /\ IsTldChar(CharAt(s, i)) THEN TldStop(s, i + 1) ELSE i

\* email_pattern around the "@" at position at: the match, greedy in the
\* domain and then in the top-level part
EmailAt(s, at) ==
    LET \* a dot of the domain with at least two letters and a \b after them
        stops(dot) == {e \in (dot + 3)..TldStop(s, dot + 1) : WordBoundary(s, e)}
        Match(start, stop) ==
            [ok |-> TRUE, start |-> start, stop |-> stop,
             local |-> Slice(s, start, at), domain |-> Slice(s, at + 1, stop)]
        Stop(start, ends) == Match(start, CHOOSE e \in ends : \A f \in ends : f <= e)
        Ends(starts, dots) ==
            IF starts = {} \/ dots = {} THEN NoMatch
            ELSE Stop(CHOOSE i \in starts : \A j \in starts : i <= j,
                      stops(CHOOSE d \in dots : \A e \in dots : e <= d))
    IN  Ends({i \in LocalStart(s, at)..(at - 1) : WordBoundary(s, i)},
             {d \in (at + 2)..(DomainStop(s, at + 1) - 1) :
                 CharAt(s, d) = "." /\ stops(d) # {}})

\* validate_email(email, check_deliverability=False).normalized: the domain
\* lowered; EmailNotValidError ("" here) for a misplaced dot
Normalized(match) ==
    IF \/ StartsWith(match.local, ".")
       \/ CharAt(match.local, Len(match.local)) = "."
       \/ Contains("..", match.local)
       \/ Contains("..", match.domain)
       \/ StartsWith(match.domain, ".")
    THEN "" ELSE match.local \o "@" \o Lower(match.domain)

\* the loop over email_pattern.finditer(text), from one "@" to the next
RECURSIVE FindEmails(_, _)
FindEmails(s, i) ==
    LET Kept(email) == IF email # "" THEN <<email>> ELSE <<>>
        Match(at, match) ==
            IF match.ok /\ match.start >= i
            THEN Kept(Normalized(match)) \o FindEmails(s, match.stop)
            ELSE FindEmails(s, at + 1)
        At(at) == Match(at, EmailAt(s, at))
        Ats(ats) ==
            IF ats = {} THEN <<>> ELSE At(CHOOSE k \in ats : \A j \in ats : k <= j)
    IN  Ats({k \in i..Len(s) : CharAt(s, k) = "@"})

\* the elements of a list, each once, in the order of their first occurrence
RECURSIVE Distinct(_)
Distinct(seq) ==
    LET Added(front, x) == IF InSeq(x, front) THEN front ELSE Append(front, x)
    IN  IF Len(seq) = 0 THEN <<>>
        ELSE Added(Distinct(SubSeq(seq, 1, Len(seq) - 1)), seq[Len(seq)])

Reversed(seq) == [k \in 1..Len(seq) |-> seq[Len(seq) + 1 - k]]

\* list(set(strings)): the order in which a set of strings is iterated is the
\* order of their hashes, which the process's hash seed decides
ListOfSet(strings, hash_seed) ==
    LET Ordered(emails) == IF hash_seed = 0 THEN emails ELSE Reversed(emails)
    IN  Ordered(Distinct(strings))

\* CVParser._extract_emails in a process with the given hash seed
_extract_emails(text, hash_seed) ==
    LET FirstThree(emails) == SubSeq(emails, 1, Min(3, Len(emails)))
    IN  FirstThree(ListOfSet(FindEmails(text, 1), hash_seed))

IsUpper(c) == c # LowerChar(c)

\* the first position of three whitespace characters in a row, or 0
ThreeSpacesAt(s) ==
    LET at == {k \in 1..(Len(s) - 2) :
                  \A j \in k..(k + 2) : IsSpace(CharAt(s, j))}
    IN  IF at = {} THEN 0 ELSE CHOOSE k \in at : \A h \in at : k <= h

\* CVParser._extract_name
_extract_name(text) ==
    LET Name(first_line, words) ==
            IF /\ 2 <= Len(words) /\ Len(words) <= 4
               /\ \A k \in 1..Len(words) : IsUpper(CharAt(words[k], 1))
            THEN first_line
            ELSE NoneStr
        Column(first_line) ==
            IF Contains("   ", first_line)
            THEN Strip(Slice(first_line, 1, ThreeSpacesAt(first_line)))
            ELSE first_line
        Tabbed(first_line) ==
            IF Contains("\t", first_line)
            THEN Strip(Split(first_line, "\t")[1]) ELSE first_line
        Line(first_line) == Name(first_line, Words(first_line))
        Lines(lines) ==
            IF Len(lines) = 0 THEN NoneStr ELSE Line(Column(Tabbed(lines[1])))
    IN  Lines(StrippedLines(Split(text, "\n")))

SupportedExtensions == {"pdf", "docx", "doc", "txt"}

\* CVParser._extract_text: the text of a file is the text its bytes hold
_extract_text(file_bytes, filename) ==
    LET parts == Split(Lower(filename), ".")
        ext == parts[Len(parts)]
    IN  IF ext \in SupportedExtensions THEN file_bytes ELSE NoneStr

\* hashlib.sha256(file_bytes).hexdigest()
sha256(file_bytes) == <<"sha256", file_bytes>>

\* CVParser.parse_file with the LLM parser off (settings.LLM_ENABLED is False),
\* called at date now in a process with the given hash seed: the contact, the
\* work experience and what the call adds to them
parse_file(file_bytes, filename, now, hash_seed) ==
    LET Parse(text) ==
            IF text = NoneStr THEN [raised |-> "ValueError"]
            ELSE IF Len(Strip(text)) < 50 THEN [raised |-> "ValueError"]
            ELSE [raised |-> NoneStr,
                  contact |-> [full_name |-> _extract_name(text),
                               emails |-> _extract_emails(text, hash_seed)],
                  work_experience |-> _extract_work_experience(text, now),
                  raw_text |-> text,
                  file_hash |-> sha256(file_bytes),
                  parsing_metadata |-> [filename |-> filename, text_length |-> Len(text),
                                        parsed_at |-> now, parser |-> "rules"]]
    IN  Parse(_extract_text(file_bytes, filename))

-----------------------------------------------------------------------------
(* The scoring requests.                                                   *)

NoResult == [raised |-> "<no call>"]
NoUpload == [file_bytes |-> "", filename |-> ""]

\* no parse request is being served
\* Settings as config.py declares them: LLM_ENABLED False, LLM_PARSE_ENABLED
\* and LLM_PARSE_FALLBACK True, PERSIST_DEFAULT and RETURN_RAW_TEXT False
DefaultSettings ==
    [LLM_ENABLED |-> FALSE, LLM_PARSE_ENABLED |-> TRUE, LLM_PARSE_FALLBACK |-> TRUE,
     PERSIST_DEFAULT |-> FALSE, RETURN_RAW_TEXT |-> FALSE]

\* parse_cv's defaults: return_raw_text False, persist False
DefaultParams == [return_raw_text |-> FALSE, persist |-> FALSE]

\* the process as it starts: default settings, nothing cached
NoCache ==
    /\ settings = DefaultSettings /\ _parse_cache = <<>> /\ params = DefaultParams
    /\ scoring_results = <<>>

NoParse == upload = NoUpload /\ seed = 0 /\ parsed = NoResult /\ NoCache

NoLast == [candidate |-> <<>>, locals |-> NoResult, result |-> NoResult]

Work(employer, start_date, end_date, duration_months) ==
    [employer |-> employer, title |-> "Engineer", start_date |-> start_date,
     end_date |-> end_date, duration_months |-> duration_months]

Edu(institution, degree, field) ==
    [institution |-> institution, degree |-> degree, field |-> field]

Job(title, required_skills, preferred_skills, min_years, preferred_years) ==
    [title |-> title, description |-> "Build and run the product",
     required_skills |-> required_skills, preferred_skills |-> preferred_skills,
     min_years_experience |-> min_years,
     preferred_years_experience |-> preferred_years,
     min_education |-> NoneStr, preferred_education |-> NoneStr,
     required_certifications |-> <<>>]

Candidate(skills, work_experience, education) ==
    [skills |-> skills, work_experience |-> work_experience,
     education |-> education, certifications |-> <<>>]

\* Sequences over S of length at most n
RECURSIVE SeqsUpTo(_, _)
SeqsUpTo(S, n) ==
    IF n = 0 THEN {<<>>}
    ELSE LET shorter == SeqsUpTo(S, n - 1)
         IN  shorter \cup {Append(q, x) : q \in shorter, x \in S}

\* the longest work history of a score request
MaxRoles == 1

Titles == {"Software Engineer", "Summer Intern", "Junior Analyst"}
RequiredSkillLists == {<<>>, <<"python">>}
PreferredSkillLists == {<<>>, <<"docker">>}
MinYears == {None, RInt(5), RInt(10)}
PreferredYears == {None, RInt(5), RInt(11)}

Jobs ==
    {Job(t, r, p, my, py) :
        t \in Titles, r \in RequiredSkillLists, p \in PreferredSkillLists,
        my \in MinYears, py \in PreferredYears}

WorkEntries ==
    {Work("Google Inc", <<2005, 3, 1>>, <<2015, 3, 1>>, 120),
     Work("Unknown Startup LLC", <<2005, 6, 1>>, <<2015, 6, 1>>, 120),
     Work("Unknown Startup LLC", <<2024, 11, 1>>, None, 24),
     Work("Barclays", <<2026, 6, 1>>, <<2026, 9, 1>>, 3)}

SkillLists == {<<"Python">>, <<"Python3", "Docker">>}

Candidates ==
    {Candidate(s, w, <<Edu("MIT", "bachelors", "Computer Science")>>) :
        s \in SkillLists, w \in SeqsUpTo(WorkEntries, MaxRoles)}

CustomWeights ==
    {None,
     [skills |-> 40, experience |-> 40, education |-> 10,
      certifications |-> 5, stability |-> 5]}

LLMResponses ==
    {[ok |-> FALSE, score_adjustment |-> 0, flags |-> <<>>],
     [ok |-> TRUE, score_adjustment |-> 0, flags |-> <<>>],
     [ok |-> TRUE, score_adjustment |-> 15, flags |-> <<>>],
     [ok |-> TRUE, score_adjustment |-> -4,
      flags |-> << [type |-> "llm_concern", severity |-> "low", gap_months |-> 0] >>]}

Todays == {<<2026, 11, 2>>}

Init ==
    /\ pc = "request"
    /\ job \in Jobs
    /\ candidate \in Candidates
    /\ custom_weights \in CustomWeights
    /\ mode \in {"baseline", "llm"}
    /\ today \in Todays
    /\ locals = NoResult
    /\ result = NoResult
    /\ last = NoLast
    /\ NoParse

\* scorer.score(candidate, job, custom_weights) of the score request
Score ==
    /\ pc = "request"
    /\ locals' = ScoreLocals(candidate, job, custom_weights, today[1])
    /\ result' = BuildResult(locals')
    /\ pc' = IF mode = "llm" /\ result'.raised = NoneStr THEN "enhance" ELSE "done"
    /\ UNCHANGED <<job, candidate, custom_weights, mode, today, last, upload, seed, parsed,
                   settings, _parse_cache, params,
                   scoring_results>>

\* llm_scorer.enhance_score(result, candidate, job) of an llm-mode request
EnhanceScore ==
    /\ pc = "enhance"
    /\ \E llm_response \in LLMResponses :
           result' = enhance_score(result, llm_response)
    /\ pc' = "done"
    /\ UNCHANGED <<job, candidate, custom_weights, mode, today, locals, last,
                   upload, seed, parsed, settings, _parse_cache, params,
                   scoring_results>>

Next == Score \/ EnhanceScore

Spec == Init /\ [][Next]_vars

-----------------------------------------------------------------------------
(* Properties of the score requests.                                       *)

Returned == result.raised = NoneStr

ContributionSum(b) ==
    RAdd(b.skills_contribution,
    RAdd(b.experience_contribution,
    RAdd(b.education_contribution,
    RAdd(b.certifications_contribution, b.stability_contribution))))

RAbs(a) == IF a[1] < 0 THEN <<-a[1], a[2]>> ELSE a

\* C1: each of the five component scores the engine computes, and the overall
\* score, lies in [0, 100].
C1_ScoreBounds ==
    (pc # "request" /\ locals.raised = NoneStr) =>
        /\ InRange(locals.skills_score)
        /\ InRange(locals.exp_score)
        /\ InRange(locals.edu_score)
        /\ InRange(locals.cert_score)
        /\ InRange(locals.stability_score)
        /\ InRange(Round2(locals.overall))

\* C2: score returns a ScoringResult, without raising, for every candidate,
\* job and weights.
C2_ScoreNeverRaises == pc # "request" => Returned

\* C3: in every result returned, by the engine or by the LLM enhancement, the
\* five contributions sum to the overall score within 0.01.
C3_ContributionsSumToOverall ==
    Returned =>
        RLt(RAbs(RSub(ContributionSum(result.breakdown), result.overall_score)),
            Rat(1, 100))

\* C5: required_skills = ["python"], no preferred skills, and a candidate whose
\* only skill is "Python": the skills component score is at least 85.
C5_PythonScenario ==
    (/\ pc # "request"
     /\ locals.raised = NoneStr
     /\ job.required_skills = <<"python">>
     /\ job.preferred_skills = <<>>
     /\ candidate.skills = <<"Python">>)
    => RLe(RInt(85), locals.skills_score)

-----------------------------------------------------------------------------
(* Two candidates scored, one request after the other, against one job.    *)

\* the next score request: another candidate against the same job
NextRequest(pool) ==
    /\ pc = "done"
    /\ last = NoLast
    /\ last' = [candidate |-> candidate, locals |-> locals, result |-> result]
    /\ \E c \in pool : candidate' = c
    /\ pc' = "request"
    /\ locals' = NoResult
    /\ result' = NoResult
    /\ UNCHANGED <<job, custom_weights, mode, today, upload, seed, parsed,
                   settings, _parse_cache, params,
                   scoring_results>>

\* Candidates that differ in how well they match "kubernetes"
FillerSkills == <<"x1", "x2", "x3", "x4", "x5", "x6", "x7">>
FillerCounts == {2, Len(FillerSkills)}
MatchingSkills == {"k8s", "kubernetes cluster", "kubernetes", "x8"}

SkillsCandidates ==
    {Candidate(Append(SubSeq(FillerSkills, 1, n), k), <<>>,
               <<Edu("MIT", "bachelors", "Computer Science")>>) :
        n \in FillerCounts, k \in MatchingSkills}

SkillsJobs ==
    {Job(t, r, p, None, None) :
        t \in {"Summer Intern", "Software Engineer"},
        r \in {<<"kubernetes">>, <<"kubernetes", "java", "php">>},
        p \in {<<>>, <<"x1">>}}

InitSkills ==
    /\ pc = "request"
    /\ job \in SkillsJobs
    /\ candidate \in SkillsCandidates
    /\ custom_weights = None
    /\ mode = "baseline"
    /\ today \in Todays
    /\ locals = NoResult
    /\ result = NoResult
    /\ last = NoLast
    /\ NoParse

SkillsRequest == NextRequest(SkillsCandidates)

NextSkills == Score \/ SkillsRequest

SpecSkills == InitSkills /\ [][NextSkills]_vars

BothScored == pc = "done" /\ last # NoLast /\ Returned /\ last.result.raised = NoneStr

\* what _score_skills holds constant between the two runs, and what varies
SkillsOf(cand) == CandidateSkills(cand, _detect_job_level(job))
RequiredRatio(cand) == MatchRatio(job.required_skills, SkillsOf(cand))
PreferredMatches(cand) == Matches(job.preferred_skills, SkillsOf(cand))

\* C4: of two runs against one job with the same base credit and the same
\* preferred-skill matches, the one with the higher required-skill match ratio
\* never has the lower skills component score.
C4_SkillsMonotonic ==
    (/\ BothScored
     /\ BaseCredit(SkillsOf(last.candidate), _detect_job_level(job))
            = BaseCredit(SkillsOf(candidate), _detect_job_level(job))
     /\ PreferredMatches(last.candidate) = PreferredMatches(candidate)
     /\ RLe(RequiredRatio(last.candidate), RequiredRatio(candidate)))
    => RLe(last.result.breakdown.skills_score, result.breakdown.skills_score)

-----------------------------------------------------------------------------
(* Candidates with one role each, of 2, 5 or 10 years, against jobs that   *)
(* ask for min_years_experience = 5.                                       *)

RoleMonths == {24, 60, 120}
RoleEnds == {None, <<2015, 6, 1>>}
RoleEmployers == {"Google Inc", "Unknown Startup LLC"}

\* a role of the given length that ended at end_date, or is current
Role(employer, end_date, months) ==
    LET last_day == IF end_date = None THEN <<2026, 11, 1>> ELSE end_date
    IN  Work(employer, <<last_day[1] - months \div 12, last_day[2], 1>>, end_date, months)

ExperienceCandidates ==
    {Candidate(<<"Python">>, <<Role(e, d, m)>>,
               <<Edu("MIT", "bachelors", "Computer Science")>>) :
        e \in RoleEmployers, d \in RoleEnds, m \in RoleMonths}

ExperienceJobs ==
    {Job(t, <<>>, <<>>, RInt(5), py) :
        t \in {"Software Engineer", "Junior Analyst"},
        py \in {None, RInt(5), RInt(6)}}

InitExperience ==
    /\ pc = "request"
    /\ job \in ExperienceJobs
    /\ candidate \in ExperienceCandidates
    /\ custom_weights = None
    /\ mode = "baseline"
    /\ today \in Todays
    /\ locals = NoResult
    /\ result = NoResult
    /\ last = NoLast
    /\ NoParse

ExperienceRequest == NextRequest(ExperienceCandidates)

NextExperience == Score \/ ExperienceRequest

SpecExperience == InitExperience /\ [][NextExperience]_vars

\* the two candidates are equal in every field but the length of the role
EqualButMonths(a, b) ==
    /\ a.skills = b.skills
    /\ a.education = b.education
    /\ a.certifications = b.certifications
    /\ Len(a.work_experience) = 1 /\ Len(b.work_experience) = 1
    /\ a.work_experience[1].employer = b.work_experience[1].employer
    /\ a.work_experience[1].title = b.work_experience[1].title
    /\ a.work_experience[1].end_date = b.work_experience[1].end_date

\* C6: against one job with min_years_experience = 5, the candidate with 2
\* years in total scores strictly lower on experience than the otherwise equal
\* candidate with 5 years or more.
C6_MoreYearsScoreHigher ==
    (/\ pc = "done"
     /\ last # NoLast
     /\ job.min_years_experience = RInt(5)
     /\ EqualButMonths(last.candidate, candidate)
     /\ TotalMonths(last.candidate.work_experience) = 24
     /\ TotalMonths(candidate.work_experience) >= 60)
    => /\ last.locals.raised = NoneStr
       /\ locals.raised = NoneStr
       /\ RLt(last.locals.exp_score, locals.exp_score)

-----------------------------------------------------------------------------
(* Work histories with gaps, overlaps, equal start dates and unknown dates.*)

\* the longest work history scored for its gaps
MaxGapRoles == 3

GapRoles ==
    {Work("Acme", <<2010, 1, 15>>, <<2012, 3, 1>>, 26),
     Work("Acme", <<2010, 1, 15>>, <<2010, 4, 1>>, 3),
     Work("Initech", <<2012, 9, 30>>, <<2012, 10, 1>>, 1),
     Work("Globex", <<2013, 1, 10>>, <<2015, 6, 30>>, 29),
     Work("Hooli", <<2016, 6, 1>>, None, 125),
     Work("Umbrella", None, <<2009, 1, 1>>, 0)}

GapCandidates ==
    {Candidate(<<"Python">>, w, <<Edu("MIT", "bachelors", "Computer Science")>>) :
        w \in SeqsUpTo(GapRoles, MaxGapRoles)}

InitGaps ==
    /\ pc = "request"
    /\ job = Job("Software Engineer", <<>>, <<>>, None, None)
    /\ candidate \in GapCandidates
    /\ custom_weights = None
    /\ mode = "baseline"
    /\ today \in Todays
    /\ locals = NoResult
    /\ result = NoResult
    /\ last = NoLast
    /\ NoParse

NextGaps == Score

SpecGaps == InitGaps /\ [][NextGaps]_vars

\* role i comes before role j in start_date order (an unknown start date
\* first, equal start dates in the order of the history)
StartsBefore(w, i, j) ==
    LET a == IF w[i].start_date = None THEN <<1, 1, 1>> ELSE w[i].start_date
        b == IF w[j].start_date = None THEN <<1, 1, 1>> ELSE w[j].start_date
    IN  IF a = b THEN i < j
        ELSE \/ a[1] < b[1]
             \/ a[1] = b[1] /\ a[2] < b[2]
             \/ a[1] = b[1] /\ a[2] = b[2] /\ a[3] < b[3]

\* the pairs of roles adjacent in start_date order that are more than six
\* months apart
GapPairs(w) ==
    {p \in (DOMAIN w) \X (DOMAIN w) :
        /\ StartsBefore(w, p[1], p[2])
        /\ ~ \E k \in DOMAIN w : StartsBefore(w, p[1], k) /\ StartsBefore(w, k, p[2])
        /\ w[p[1]].end_date # None
        /\ w[p[2]].start_date # None
        /\ (w[p[2]].start_date[1] * 12 + w[p[2]].start_date[2])
               - (w[p[1]].end_date[1] * 12 + w[p[1]].end_date[2]) > 6}

EmploymentGapFlags(flags) == {k \in DOMAIN flags : flags[k].type = "employment_gap"}

\* C7: a result has at most one employment_gap flag, and has one exactly when
\* two roles adjacent in start_date order are more than 6 months apart.
C7_OneGapFlag ==
    Returned =>
        Cardinality(EmploymentGapFlags(result.flags))
            = IF GapPairs(candidate.work_experience) # {} THEN 1 ELSE 0

\* a history with two gaps, scored, carries one flag
C7_Witness ==
    /\ Returned
    /\ Cardinality(GapPairs(candidate.work_experience)) >= 2
    /\ Cardinality(EmploymentGapFlags(result.flags)) = 1

-----------------------------------------------------------------------------
(* The parse requests: CVs with one entry in their experience section, the *)
(* date range written in each way the patterns take, in each of the three  *)
(* layouts of an entry.                                                    *)

StartTexts == {"Jan 2020", "Jan 2022", "March 1985"}
DashTexts == {" - ", EnDash}
EndTexts == {"Present", "Jan 2020", "December 2021"}

DateRangeTexts == {s \o d \o e : s \in StartTexts, d \in DashTexts, e \in EndTexts}

\* title, company, date range; company, title and date range; company and
\* date range, title: each with one bullet
EntryLayouts(range) ==
    {<<"Senior Engineer", "Google", range, Bullet \o " Built scalable APIs">>,
     <<"Initech Ltd, Austin", "Lead Developer  " \o range,
       "- Ran the billing platform team">>,
     <<"Acme  " \o range, "Junior Analyst", "* Reported on weekly sales">>}

Entries == UNION {EntryLayouts(range) : range \in DateRangeTexts}

ContactLines ==
    {<<"jane@example.com">>, <<"jane@example.com, j.doe@Work.example.org">>}

SectionTails == {<<>>, <<"", "EDUCATION", "MIT, BSc Computer Science">>}

CVText(contact, entry, tail) ==
    Join(<<"Jane Doe">> \o contact \o <<"", "EXPERIENCE">> \o entry \o tail, "\n")

Documents ==
    {CVText(c, e, t) : c \in ContactLines, e \in Entries, t \in SectionTails}

Uploads ==
    {[file_bytes |-> d, filename |-> "cv.txt"] : d \in Documents}
        \cup {[file_bytes |-> "Jane Doe\njane@example.com", filename |-> "cv.txt"],
              [file_bytes |-> CVText(<<"jane@example.com">>, <<>>, <<>>),
               filename |-> "cv.pages"]}

ParseDays == {<<2026, 11, 2>>, <<2026, 12, 15>>}
HashSeeds == {0, 1}

InitParse ==
    /\ pc = "upload"
    /\ upload \in Uploads
    /\ today = <<2026, 11, 2>>
    /\ seed = 0
    /\ parsed = NoResult
    /\ NoCache
    /\ last = NoLast
    /\ job = Job("", <<>>, <<>>, None, None)
    /\ candidate = Candidate(<<>>, <<>>, <<>>)
    /\ custom_weights = None
    /\ mode = "baseline"
    /\ locals = NoResult
    /\ result = NoResult

\* parser.parse_file(file_bytes, file.filename) of the parse request
ParseFile ==
    /\ pc = "upload"
    /\ parsed' = parse_file(upload.file_bytes, upload.filename, today, seed)
    /\ pc' = "parsed"
    /\ UNCHANGED <<job, candidate, custom_weights, mode, today, locals, result, last,
                   upload, seed, settings, _parse_cache, params,
                   scoring_results>>

\* the same file uploaded again, that day or later, to that process or another
ParseAgain ==
    /\ pc = "parsed"
    /\ last = NoLast
    /\ last' = [candidate |-> parsed, locals |-> NoResult, result |-> NoResult]
    /\ today' \in ParseDays
    /\ seed' \in HashSeeds
    /\ parsed' = NoResult
    /\ pc' = "upload"
    /\ UNCHANGED <<job, candidate, custom_weights, mode, locals, result, upload,
                   settings, _parse_cache, params,
                   scoring_results>>

NextParse == ParseFile \/ ParseAgain

SpecParse == InitParse /\ [][NextParse]_vars

Parsed == pc = "parsed" /\ parsed.raised = NoneStr

\* C8: every WorkExperience the parser returns has duration_months >= 1 when
\* its start_date is known, and end_date >= start_date when both are present.
C8_DurationInvariant ==
    Parsed =>
        \A k \in 1..Len(parsed.work_experience) :
            LET work == parsed.work_experience[k]
            IN  /\ work.start_date # None => work.duration_months >= 1
                /\ (work.start_date # None /\ work.end_date # None)
                       => DateLe(work.start_date, work.end_date)

WithoutTimestamp(c) == [c EXCEPT !.parsing_metadata.parsed_at = None]

\* C9: two calls of parse_file on the same bytes and filename return
\* Candidates equal in every field but the timestamp of parsing_metadata.
C9_ParseIdempotent ==
    (Parsed /\ last # NoLast /\ last.candidate.raised = NoneStr)
        => WithoutTimestamp(parsed) = WithoutTimestamp(last.candidate)

\* the documents whose experience section is the four lines of the scenario
GoogleDocuments ==
    {CVText(c, <<"Senior Engineer", "Google", "Jan 2020 - Present",
                 Bullet \o " Built scalable APIs">>, t) :
        c \in ContactLines, t \in SectionTails}

\* C10: for the lines "Senior Engineer", "Google", "Jan 2020 - Present",
\* "(bullet) Built scalable APIs" the parser returns one work entry, with
\* "Google" in its employer, seniority senior and no end_date.
C10_GoogleScenario ==
    (Parsed /\ upload.file_bytes \in GoogleDocuments)
        => /\ Len(parsed.work_experience) = 1
           /\ Contains("Google", parsed.work_experience[1].employer)
           /\ parsed.work_experience[1].inferred_seniority = "senior"
           /\ parsed.work_experience[1].end_date = None

-----------------------------------------------------------------------------
(* The rule-based branch of CVParser.parse_file, statement by statement.   *)
(* locals holds the extracted text and what the sub-parsers returned so    *)
(* far; nothing in parse_file catches what a sub-parser raises.            *)

\* the sub-parsers in the order parse_file calls them
SubParsers ==
    <<"contact", "work_experience", "education", "skills", "certifications",
      "languages">>

\* a call that returned a value, and a call that raised
Returns(value) == [raised |-> NoneStr, value |-> value]
Raises(exception) == [raised |-> exception, value |-> <<>>]

\* CVParser._extract_contact_info: the name and the e-mail addresses
_extract_contact_info(text, hash_seed) ==
    [full_name |-> _extract_name(text), emails |-> _extract_emails(text, hash_seed)]

\* What the call of a sub-parser can do: return, or fail with an exception.
\* The contact and the work experience are what the text holds; of the other
\* sections only whether the list is empty matters here.
SubParserOutcomes(name, text, now, hash_seed) ==
    {Raises("Exception")}
        \cup (IF name = "contact"
              THEN {Returns(_extract_contact_info(text, hash_seed))}
              ELSE IF name = "work_experience"
              THEN {Returns(_extract_work_experience(text, now))}
              ELSE {Returns(<<>>), Returns(<<[section |-> name]>>)})

\* the ParsedCandidate that parse_file builds from what the sub-parsers returned
ParsedCandidate(sections, text, filename, file_hash, now) ==
    [raised |-> NoneStr,
     contact |-> sections[1],
     work_experience |-> sections[2],
     education |-> sections[3],
     skills |-> sections[4],
     certifications |-> sections[5],
     languages |-> sections[6],
     raw_text |-> text,
     file_hash |-> file_hash,
     parsing_metadata |-> [filename |-> filename, text_length |-> Len(text),
                           parsed_at |-> now, parser |-> "rules"]]

SectionUploads ==
    {[file_bytes |-> CVText(<<"jane@example.com">>, e, <<>>), filename |-> "cv.txt"] :
        e \in EntryLayouts("Jan 2020 - Present")}
        \cup {[file_bytes |-> "Jane Doe\njane@example.com", filename |-> "cv.txt"],
              [file_bytes |-> CVText(<<"jane@example.com">>, <<>>, <<>>),
               filename |-> "cv.pages"]}

InitSections ==
    /\ pc = "upload"
    /\ upload \in SectionUploads
    /\ today = <<2026, 11, 2>>
    /\ seed = 0
    /\ parsed = NoResult
    /\ NoCache
    /\ last = NoLast
    /\ job = Job("", <<>>, <<>>, None, None)
    /\ candidate = Candidate(<<>>, <<>>, <<>>)
    /\ custom_weights = None
    /\ mode = "baseline"
    /\ locals = NoResult
    /\ result = NoResult

\* the text of the file and the check of its length
ExtractText ==
    /\ pc = "upload"
    /\ LET Checked(text) ==
               IF text = NoneStr \/ Len(Strip(text)) < 50
               THEN /\ parsed' = [raised |-> "ValueError"]
                    /\ pc' = "raised"
                    /\ UNCHANGED locals
               ELSE /\ locals' = [text |-> text, failed |-> NoneStr, sections |-> <<>>]
                    /\ pc' = "rules"
                    /\ UNCHANGED parsed
       IN  Checked(_extract_text(upload.file_bytes, upload.filename))
    /\ UNCHANGED <<job, candidate, custom_weights, mode, today, result, last, upload,
                   seed, settings, _parse_cache, params,
                   scoring_results>>

\* the call of the next sub-parser: its value is kept, its exception leaves
\* parse_file
ExtractSection ==
    /\ pc = "rules"
    /\ Len(locals.sections) < Len(SubParsers)
    /\ LET name == SubParsers[Len(locals.sections) + 1]
       IN  \E outcome \in SubParserOutcomes(name, locals.text, today, seed) :
               IF outcome.raised # NoneStr
               THEN /\ parsed' = [raised |-> outcome.raised]
                    /\ locals' = [locals EXCEPT !.failed = name]
                    /\ pc' = "raised"
               ELSE /\ locals' = [locals EXCEPT !.sections = Append(@, outcome.value)]
                    /\ UNCHANGED <<parsed, pc>>
    /\ UNCHANGED <<job, candidate, custom_weights, mode, today, result, last, upload,
                   seed, settings, _parse_cache, params,
                   scoring_results>>

\* return ParsedCandidate(...)
BuildCandidate ==
    /\ pc = "rules"
    /\ Len(locals.sections) = Len(SubParsers)
    /\ parsed' = ParsedCandidate(locals.sections, locals.text, upload.filename,
                                 sha256(upload.file_bytes), today)
    /\ pc' = "parsed"
    /\ UNCHANGED <<job, candidate, custom_weights, mode, today, locals, result, last,
                   upload, seed, settings, _parse_cache, params,
                   scoring_results>>

NextSections == ExtractText \/ ExtractSection \/ BuildCandidate

SpecSections == InitSections /\ [][NextSections]_vars

\* a sub-parser has raised during this call
SectionFailed == pc \in {"rules", "raised", "parsed"} /\ locals # NoResult
                     /\ locals.failed # NoneStr

\* C11: when one sub-parser raises, the other sub-parsers still run and
\* parse_file returns a Candidate whose list for the failed section is empty;
\* parse_file raises only for a document that is unreadable or whose text is
\* empty or too short.
C11_SectionFaultIsolated ==
    /\ pc = "raised" => (locals = NoResult /\ parsed.raised = "ValueError")
    /\ (SectionFailed /\ pc = "parsed") => parsed.raised = NoneStr

-----------------------------------------------------------------------------
(* The parse request, with the LLM parser and its cache.  parse_file hands *)
(* the text to LLMParser.parse_async when the settings enable it; the      *)
(* Candidate that parse_async returns is the object kept in _parse_cache,  *)
(* and parse_cv writes to the Candidate it got before it responds.         *)

\* a deployment that parses with the LLM (LLM_ENABLED=true and an API key)
LLMSettings == [DefaultSettings EXCEPT !.LLM_ENABLED = TRUE]

\* what _call_llm_async can give for a CV: its JSON, or an exception
LLMParses ==
    {Returns([contact |-> [full_name |-> "Jane Doe", emails |-> <<"jane@example.com">>],
              work_experience |-> <<>>]),
     Raises("Exception")}

\* LLMParser._build_candidate
_build_candidate(data, raw_text, filename, file_hash, now) ==
    [raised |-> NoneStr,
     contact |-> data.contact,
     work_experience |-> data.work_experience,
     raw_text |-> raw_text,
     file_hash |-> file_hash,
     parsing_metadata |-> [filename |-> filename, text_length |-> Len(raw_text),
                           parsed_at |-> now, parser |-> "llm"]]

\* _parse_cache[file_hash] = candidate
Cached(cache, file_hash, cached_candidate) ==
    [h \in DOMAIN cache \cup {file_hash} |->
        IF h = file_hash THEN cached_candidate ELSE cache[h]]

\* LLMParser.parse_async with the cache as it is and the LLM answering llm:
\* the Candidate or the exception, and the cache afterwards
parse_async(text, filename, file_hash, cache, llm, now) ==
    LET Built(built) == [candidate |-> built, cache |-> Cached(cache, file_hash, built)]
    IN  IF file_hash \in DOMAIN cache
        THEN [candidate |-> cache[file_hash], cache |-> cache]
        ELSE IF llm.raised # NoneStr
        THEN [candidate |-> [raised |-> llm.raised], cache |-> cache]
        ELSE Built(_build_candidate(llm.value, text, filename, file_hash, now))

\* the files of the parse requests: two CVs, each under two names
CacheUploads ==
    {[file_bytes |-> CVText(<<"jane@example.com">>, e, <<>>), filename |-> f] :
        e \in {<<"Acme  Jan 2020 - Present", "Junior Analyst", "* Reported on weekly sales">>,
               <<"Acme  Jan 2022 - Present", "Junior Analyst", "* Reported on weekly sales">>},
        f \in {"cv.txt", "jane.txt"}}
        \cup {[file_bytes |-> "Jane Doe\njane@example.com", filename |-> "cv.txt"]}

ParamSets ==
    {[return_raw_text |-> r, persist |-> p] : r \in BOOLEAN, p \in BOOLEAN}

InitCache ==
    /\ pc = "upload"
    /\ upload \in CacheUploads
    /\ params \in ParamSets
    /\ settings \in {DefaultSettings, LLMSettings}
    /\ _parse_cache = <<>> /\ scoring_results = <<>>
    /\ today = <<2026, 11, 2>>
    /\ seed = 0
    /\ parsed = NoResult
    /\ last = NoLast
    /\ job = Job("", <<>>, <<>>, None, None)
    /\ candidate = Candidate(<<>>, <<>>, <<>>)
    /\ custom_weights = None
    /\ mode = "baseline"
    /\ locals = NoResult
    /\ result = NoResult

\* candidate = await parser.parse_file(file_bytes, file.filename): the text,
\* the LLM parser when it is enabled, the rules when it is not or has failed
\* and LLM_PARSE_FALLBACK is set.  locals notes whether the Candidate is the
\* object held by the cache.
CallParseFile ==
    /\ pc = "upload"
    /\ LET file_hash == sha256(upload.file_bytes)
           Rules(text, by_rules) ==
               /\ parsed' = by_rules
               /\ locals' = [text |-> text, cached |-> FALSE]
               /\ pc' = "parsed"
               /\ UNCHANGED _parse_cache
           LLM(text, call, by_rules) ==
               IF call.candidate.raised = NoneStr
               THEN /\ parsed' = call.candidate
                    /\ _parse_cache' = call.cache
                    /\ locals' = [text |-> text, cached |-> TRUE]
                    /\ pc' = "parsed"
               ELSE IF settings.LLM_PARSE_FALLBACK
               THEN Rules(text, by_rules)
               ELSE /\ parsed' = call.candidate
                    /\ pc' = "raised"
                    /\ UNCHANGED <<_parse_cache, locals>>
           Text(text, by_rules) ==
               IF text = NoneStr \/ Len(Strip(text)) < 50
               THEN /\ parsed' = [raised |-> "ValueError"]
                    /\ pc' = "raised"
                    /\ UNCHANGED <<_parse_cache, locals>>
               ELSE IF settings.LLM_ENABLED /\ settings.LLM_PARSE_ENABLED
               THEN \E llm \in LLMParses :
                        LLM(text,
                            parse_async(text, upload.filename, file_hash, _parse_cache,
                                        llm, today),
                            by_rules)
               ELSE Rules(text, by_rules)
       IN  Text(_extract_text(upload.file_bytes, upload.filename),
                parse_file(upload.file_bytes, upload.filename, today, seed))
    /\ UNCHANGED <<job, candidate, custom_weights, mode, today, result, last, upload,
                   seed, settings, params,
                   scoring_results>>

\* what parse_cv writes to the Candidate after the parse: the outcome of the
\* persistence when it is asked for, and raw_text = None for privacy
Processed(parsed_candidate, saved) ==
    LET Stripped(c) ==
            IF ~params.return_raw_text /\ ~settings.RETURN_RAW_TEXT
            THEN [c EXCEPT !.raw_text = NoneStr] ELSE c
        meta == parsed_candidate.parsing_metadata
        Persisted(c) ==
            IF params.persist \/ settings.PERSIST_DEFAULT
            THEN [c EXCEPT !.parsing_metadata =
                     [filename |-> meta.filename, text_length |-> meta.text_length,
                      parsed_at |-> meta.parsed_at, parser |-> meta.parser,
                      cv_id |-> IF saved THEN "<parsed_cv_record.id>" ELSE NoneStr,
                      persistence_status |-> IF saved THEN "saved" ELSE "failed"]]
            ELSE c
    IN  Stripped(Persisted(parsed_candidate))

\* the rest of parse_cv: the writes go to the Candidate object, which is also
\* the cache's when the LLM parser returned it
Respond ==
    /\ pc = "parsed"
    /\ \E saved \in BOOLEAN :
           /\ result' = [raised |-> NoneStr, candidate |-> Processed(parsed, saved)]
           /\ _parse_cache' =
                  IF locals.cached
                  THEN Cached(_parse_cache, parsed.file_hash, Processed(parsed, saved))
                  ELSE _parse_cache
    /\ pc' = "responded"
    /\ UNCHANGED <<job, candidate, custom_weights, mode, today, locals, last, upload,
                   seed, parsed, settings, params,
                   scoring_results>>

\* except ValueError / except Exception: the HTTP error of a failed parse
RespondError ==
    /\ pc = "raised"
    /\ result' = [raised |-> IF parsed.raised = "ValueError" THEN "HTTP 422"
                             ELSE "HTTP 500"]
    /\ pc' = "responded"
    /\ UNCHANGED <<job, candidate, custom_weights, mode, today, locals, last, upload,
                   seed, parsed, settings, _parse_cache, params,
                   scoring_results>>

\* the next parse request to the same process
NextUpload ==
    /\ pc = "responded"
    /\ upload' \in CacheUploads
    /\ params' \in ParamSets
    /\ parsed' = NoResult
    /\ result' = NoResult
    /\ locals' = NoResult
    /\ pc' = "upload"
    /\ UNCHANGED <<job, candidate, custom_weights, mode, today, last, seed, settings,
                   _parse_cache, scoring_results>>

NextCache == CallParseFile \/ Respond \/ RespondError \/ NextUpload

SpecCache == InitCache /\ [][NextCache]_vars

\* C12: parse_file holds no state across calls: whatever requests came
\* before, the Candidate it returns carries the filename of this request, a
\* raw_text equal to the extracted text, and nothing that the post-processing
\* of an earlier request wrote.
C12_ParseFileStateless ==
    (pc = "parsed" /\ parsed.raised = NoneStr) =>
        /\ parsed.parsing_metadata.filename = upload.filename
        /\ parsed.raw_text = locals.text
        /\ "persistence_status" \notin DOMAIN parsed.parsing_metadata


-----------------------------------------------------------------------------
(* LLM-mode score requests: score_candidate computes the baseline, asks    *)
(* for the LLM scorer and lets it enhance the result.                      *)

\* what _call_llm can do: raise (error, timeout, a response that is not
\* JSON), or return a response, well-formed or with a flag that is no RiskFlag
LLMCallOutcomes ==
    LLMResponses \union
    {[ok |-> TRUE, score_adjustment |-> 5,
      flags |-> << [type |-> "llm_concern", severity |-> "low", gap_months |-> 0],
                   [type |-> "llm_concern"] >>],
     [ok |-> TRUE, score_adjustment |-> -10, flags |-> << [severity |-> "high"] >>]}

InitLLM ==
    /\ pc = "request"
    /\ job \in Jobs
    /\ candidate \in Candidates
    /\ custom_weights \in CustomWeights
    /\ mode = "llm"
    /\ today \in Todays
    /\ locals = NoResult
    /\ result = NoResult
    /\ last = NoLast
    /\ upload = NoUpload /\ seed = 0 /\ parsed = NoResult
    /\ settings \in {DefaultSettings, LLMSettings}
    /\ _parse_cache = <<>> /\ scoring_results = <<>>
    /\ params = DefaultParams

\* get_llm_scorer(): raises ValueError when LLM_ENABLED is false, and the
\* route's except keeps the baseline result
GetLLMScorer ==
    /\ pc = "enhance"
    /\ IF settings.LLM_ENABLED
       THEN /\ pc' = "call"
            /\ UNCHANGED result
       ELSE /\ result' = [result EXCEPT !.rationale = "[LLM enhancement failed]",
                                        !.llm_adjustment = RInt(0)]
            /\ pc' = "fallback"
    /\ UNCHANGED <<job, candidate, custom_weights, mode, today, locals, last,
                   upload, seed, parsed, settings, _parse_cache, params,
                   scoring_results>>

\* await llm_scorer.enhance_score(result, candidate, job)
CallLLM ==
    /\ pc = "call"
    /\ \E llm_response \in LLMCallOutcomes :
           /\ result' = enhance_score(result, llm_response)
           /\ pc' = IF LLMFailed(llm_response) THEN "fallback" ELSE "enhanced"
    /\ UNCHANGED <<job, candidate, custom_weights, mode, today, locals, last,
                   upload, seed, parsed, settings, _parse_cache, params,
                   scoring_results>>

NextLLM == Score \/ GetLLMScorer \/ CallLLM

SpecLLM == InitLLM /\ [][NextLLM]_vars

\* the fields of a result that the fallback must keep
BaselineFields(r) ==
    <<r.overall_score, r.breakdown, r.flags, r.model_version, r.rules_version>>

\* C13: when the LLM call fails during LLM-mode scoring (the scorer is not
\* available, the call raises, or the response is malformed), the result
\* returned has the overall_score, breakdown, flags, model_version and
\* rules_version of ScoringEngine.score for the same candidate and job.
C13_LLMFallbackIsBaseline ==
    pc = "fallback" =>
        /\ result.raised = NoneStr
        /\ BaselineFields(result)
               = BaselineFields(score(candidate, job, custom_weights, today[1]))

\* the LLM call failed after a well-formed flag, on a baseline that has flags
C13_Witness ==
    /\ pc = "fallback"
    /\ settings.LLM_ENABLED
    /\ result.rationale = "[LLM unavailable]"
    /\ result.flags # <<>>


-----------------------------------------------------------------------------
(* Batch scoring: batch_score_cvs starts one _process_single_cv task per   *)
(* uploaded file, gathers their reviews, counts and sorts them.  The tasks *)
(* run interleaved, one step from an await to the next at a time.          *)
(* upload is the list of files, locals the list of tasks, result the       *)
(* response.                                                               *)

MAX_BATCH_SIZE == 50
MAX_FILE_SIZE_MB == 5

\* the most files of a batch request of the model
MaxFiles == 3

\* an uploaded file: its name, its size and what parse_file makes of it
BatchFile(filename, size_mb, parse) ==
    [filename |-> filename, size_mb |-> size_mb, parse |-> parse]

BatchFiles ==
    {BatchFile("huge.pdf", 6, [raised |-> "ValueError", message |-> "unread"]),
     BatchFile("cv.exe", 1, [raised |-> "ValueError", message |-> "unread"]),
     BatchFile("scan.pdf", 1,
               [raised |-> "ValueError",
                message |-> "Insufficient text extracted from document"]),
     BatchFile("odd.docx", 1, [raised |-> "StopIteration", message |-> ""]),
     BatchFile("ann.txt", 1,
               [raised |-> NoneStr,
                candidate |->
                    Candidate(<<"Python">>,
                              <<Work("Google Inc", <<2005, 3, 1>>, <<2015, 3, 1>>, 120)>>,
                              <<Edu("MIT", "bachelors", "Computer Science")>>)]),
     BatchFile("bob.txt", 1,
               [raised |-> NoneStr,
                candidate |->
                    Candidate(<<"Python3", "Docker">>,
                              <<Work("Barclays", <<2026, 6, 1>>, <<2026, 9, 1>>, 3)>>,
                              <<Edu("MIT", "bachelors", "Computer Science")>>)])}

\* JobProfile(...) of the form fields: min_years_experience if > 0 else None
BatchJob(job_title, required_skills, min_years_experience) ==
    Job(job_title, required_skills, <<>>,
        IF min_years_experience > 0 THEN RInt(min_years_experience) ELSE None, None)

BatchJobs ==
    {BatchJob("Software Engineer", <<"python">>, m) : m \in {0, 5}}

_empty_scores ==
    [raised |-> NoneStr, skills_score |-> RInt(0), experience_score |-> RInt(0),
     education_score |-> RInt(0), certifications_score |-> RInt(0),
     stability_score |-> RInt(0)]

\* CandidateReview(...), with the fields the response is counted and sorted by
CandidateReview(filename, suitability_score, recommendation, flags, parsing_errors) ==
    IF InRange(suitability_score)
    THEN [raised |-> NoneStr, filename |-> filename,
          suitability_score |-> suitability_score,
          recommendation |-> recommendation, flags |-> flags,
          parsing_errors |-> parsing_errors]
    ELSE [raised |-> "ValidationError"]

\* the review of a file that could not be processed
FailedReview(filename, parsing_errors) ==
    CandidateReview(filename, RInt(0), "weak_match", <<>>, parsing_errors)

Recommendation(suitability_score) ==
    IF RLe(RInt(80), suitability_score) THEN "strong_match"
    ELSE IF RLe(RInt(65), suitability_score) THEN "good_match"
    ELSE IF RLe(RInt(50), suitability_score) THEN "moderate_match"
    ELSE "weak_match"

\* LLMScorer.generate_detailed_review: the dict of the review, from the LLM's
\* response or, when the call or the response fails, from the baseline
generate_detailed_review(baseline_result, llm_response) ==
    IF LLMFailed(llm_response)
    THEN [suitability_score |-> baseline_result.overall_score,
          recommendation |-> IF RLe(RInt(50), baseline_result.overall_score)
                             THEN "moderate_match" ELSE "weak_match",
          flags |-> baseline_result.flags]
    ELSE LET Review(suitability_score) ==
                 [suitability_score |-> Round1(suitability_score),
                  recommendation |-> Recommendation(suitability_score),
                  flags |-> baseline_result.flags \o llm_response.flags]
         IN  Review(RMax(RInt(0), RMin(RInt(100),
                 RAdd(baseline_result.overall_score,
                      RInt(Max(-10, Min(10, llm_response.score_adjustment)))))))

\* the reviews as gathered, in the order of the files
UnsortedReviews(reviews) == reviews

\* reviews.sort(key=lambda r: r.suitability_score, reverse=True): stable
RECURSIVE SortReviews(_)
SortReviews(reviews) ==
    IF reviews = <<>> THEN <<>>
    ELSE LET Insert(front, x) ==
                 LET k == Cardinality({i \in 1..Len(front) :
                              RLe(x.suitability_score, front[i].suitability_score)})
                 IN  SubSeq(front, 1, k) \o <<x>> \o SubSeq(front, k + 1, Len(front))
         IN  Insert(SortReviews(SubSeq(reviews, 1, Len(reviews) - 1)),
                    reviews[Len(reviews)])

\* sum(1 for r in reviews if ...)
CountReviews(reviews, Test(_)) == Cardinality({i \in 1..Len(reviews) : Test(reviews[i])})

\* bool(r.parsing_errors): None and the empty string are false
HasParsingErrors(r) == r.parsing_errors # NoneStr /\ r.parsing_errors # ""

BatchScoreResponse(files, reviews) ==
    LET Succeeded(r) == ~HasParsingErrors(r)
    IN  [raised |-> NoneStr,
         total_cvs |-> Len(files),
         successful_reviews |-> CountReviews(reviews, Succeeded),
         failed_reviews |-> CountReviews(reviews, HasParsingErrors),
         reviews |-> SortReviews(reviews)]

InitBatch ==
    /\ pc = "request"
    /\ upload \in SeqsUpTo(BatchFiles, MaxFiles)
    /\ job \in BatchJobs
    /\ candidate = None
    /\ custom_weights = None
    /\ mode = "llm"
    /\ today \in Todays
    /\ locals = NoResult
    /\ result = NoResult
    /\ last = NoLast
    /\ seed = 0 /\ parsed = NoResult
    /\ settings \in {DefaultSettings, LLMSettings}
    /\ _parse_cache = <<>> /\ scoring_results = <<>>
    /\ params = DefaultParams

\* batch_score_cvs up to asyncio.gather: the checks of the request, then one
\* task per file
StartBatch ==
    /\ pc = "request"
    /\ IF Len(upload) = 0 \/ Len(upload) > MAX_BATCH_SIZE
       THEN /\ result' = [raised |-> "HTTP 400"]
            /\ pc' = "rejected"
            /\ UNCHANGED locals
       ELSE IF ~settings.LLM_ENABLED
       THEN /\ result' = [raised |-> "HTTP 422"]
            /\ pc' = "rejected"
            /\ UNCHANGED locals
       ELSE /\ locals' = [i \in 1..Len(upload) |-> [pc |-> "read"]]
            /\ pc' = "gather"
            /\ UNCHANGED result
    /\ UNCHANGED <<job, candidate, custom_weights, mode, today, last, upload, seed,
                   parsed, settings, _parse_cache, params,
                   scoring_results>>

\* a task's result: what _process_single_cv returns, or the exception that
\* leaves it
TaskDone(review) == [pc |-> "done", review |-> review]

\* _process_single_cv from await file.read() to the parse: size and type
ReadFile(i) ==
    /\ pc = "gather"
    /\ i <= Len(locals)
    /\ locals[i].pc = "read"
    /\ LET file == upload[i]
           file_extension ==
               IF Contains(".", file.filename)
               THEN Lower(Split(file.filename, ".")[Len(Split(file.filename, "."))])
               ELSE ""
       IN  locals' =
               [locals EXCEPT ![i] =
                   IF file.size_mb > MAX_FILE_SIZE_MB
                   THEN TaskDone(FailedReview(file.filename, "File too large"))
                   ELSE IF file_extension \notin {"pdf", "docx", "doc", "txt"}
                   THEN TaskDone(FailedReview(file.filename, "Unsupported file type"))
                   ELSE [pc |-> "parse"]]
    /\ UNCHANGED <<pc, job, candidate, custom_weights, mode, today, result, last, upload,
                   seed, parsed, settings, _parse_cache, params,
                   scoring_results>>

\* from await cv_parser.parse_file(...) to the LLM call: the parse error, or
\* scorer.score(candidate, job, None), whose exception the outer except takes
ParseAndScore(i) ==
    /\ pc = "gather"
    /\ i <= Len(locals)
    /\ locals[i].pc = "parse"
    /\ LET file == upload[i]
           Scored(baseline_result) ==
               IF baseline_result.raised # NoneStr
               THEN TaskDone(FailedReview(file.filename, baseline_result.raised))
               ELSE [pc |-> "review", baseline_result |-> baseline_result]
       IN  locals' =
               [locals EXCEPT ![i] =
                   IF file.parse.raised # NoneStr
                   THEN TaskDone(FailedReview(file.filename, file.parse.message))
                   ELSE Scored(score(file.parse.candidate, job, None, today[1]))]
    /\ UNCHANGED <<pc, job, candidate, custom_weights, mode, today, result, last, upload,
                   seed, parsed, settings, _parse_cache, params,
                   scoring_results>>

\* from await llm_scorer.generate_detailed_review(...) to the return
ReviewCV(i) ==
    /\ pc = "gather"
    /\ i <= Len(locals)
    /\ locals[i].pc = "review"
    /\ \E llm_response \in LLMCallOutcomes :
           LET \* except Exception as llm_error: the review of the baseline alone
               Fallback(baseline_result) ==
                   CandidateReview(upload[i].filename, baseline_result.overall_score,
                                   Recommendation(baseline_result.overall_score),
                                   baseline_result.flags, NoneStr)
               Validated(review) ==
                   IF review.raised # NoneStr
                   THEN Fallback(locals[i].baseline_result)
                   ELSE review
               Reviewed(review_data) ==
                   Validated(CandidateReview(upload[i].filename,
                                            review_data.suitability_score,
                                            review_data.recommendation,
                                            review_data.flags, NoneStr))
           IN  locals' =
                   [locals EXCEPT ![i] =
                       TaskDone(Reviewed(generate_detailed_review(
                                    locals[i].baseline_result, llm_response)))]
    /\ UNCHANGED <<pc, job, candidate, custom_weights, mode, today, result, last, upload,
                   seed, parsed, settings, _parse_cache, params,
                   scoring_results>>

\* reviews = await asyncio.gather(*tasks), and the rest of batch_score_cvs
Gather ==
    /\ pc = "gather"
    /\ \A i \in 1..Len(locals) : locals[i].pc = "done"
    /\ result' =
           IF \E i \in 1..Len(locals) : locals[i].review.raised # NoneStr
           THEN [raised |-> "ValidationError"]
           ELSE BatchScoreResponse(upload, [i \in 1..Len(locals) |-> locals[i].review])
    /\ pc' = "done"
    /\ UNCHANGED <<job, candidate, custom_weights, mode, today, locals, last, upload, seed,
                   parsed, settings, _parse_cache, params,
                   scoring_results>>

NextBatch ==
    \/ StartBatch
    \/ \E i \in 1..MaxFiles : ReadFile(i)
    \/ \E i \in 1..MaxFiles : ParseAndScore(i)
    \/ \E i \in 1..MaxFiles : ReviewCV(i)
    \/ Gather

SpecBatch == InitBatch /\ [][NextBatch]_vars

\* how many of the files, or of the reviews, carry a filename
FilesNamed(files, filename) ==
    Cardinality({i \in 1..Len(files) : files[i].filename = filename})

-----------------------------------------------------------------------------
(* Candidates without work experience.                                     *)

\* C15: for every candidate with no work_experience entries scored against
\* an intern-level job, the experience component score is 65, whatever the
\* candidate's other fields and the job's experience requirements.
C15_InternNoExperience ==
    (/\ pc # "request"
     /\ Len(candidate.work_experience) = 0
     /\ _detect_job_level(job) = "intern") =>
        /\ locals.raised = NoneStr
        /\ locals.exp_score = RInt(65)
        /\ result.raised = NoneStr
        /\ result.breakdown.experience_score = RInt(65)

\* an intern job that asks for ten years, scored for a candidate with none
C15_Witness ==
    /\ pc = "done"
    /\ Len(candidate.work_experience) = 0
    /\ _detect_job_level(job) = "intern"
    /\ job.min_years_experience = RInt(10)
    /\ result.raised = NoneStr
    /\ result.breakdown.experience_score = RInt(65)


-----------------------------------------------------------------------------
(* Job-level detection on its own.                                         *)

LevelTitles ==
    {"Software Engineer", "Data Scientist", "Summer Intern", "Senior Intern",
     "Senior Associate", "Team Lead", "Graduate Trainee", "Junior Analyst"}

LevelDescriptions ==
    {"Build and run the product", "A placement for students",
     "Reports to the director"}

LevelMinYears == {None, RInt(0), Rat(1, 2), RInt(1), RInt(2), RInt(3), Rat(7, 2), RInt(5)}

LevelJobs ==
    {[Job(t, <<>>, <<>>, my, None) EXCEPT !.description = d] :
        t \in LevelTitles, d \in LevelDescriptions, my \in LevelMinYears}

InitLevel ==
    /\ pc = "request"
    /\ job \in LevelJobs
    /\ candidate = None
    /\ custom_weights = None
    /\ mode = "baseline"
    /\ today \in Todays
    /\ locals = NoResult
    /\ result = NoResult
    /\ last = NoLast
    /\ NoParse

\* job_level = self._detect_job_level(job)
DetectJobLevel ==
    /\ pc = "request"
    /\ result' = [raised |-> NoneStr, job_level |-> _detect_job_level(job)]
    /\ pc' = "done"
    /\ UNCHANGED <<job, candidate, custom_weights, mode, today, locals, last, upload, seed,
                   parsed, settings, _parse_cache, params,
                   scoring_results>>

NextLevel == DetectJobLevel

SpecLevel == InitLevel /\ [][NextLevel]_vars

\* C16: job-level detection returns intern if any intern keyword occurs in
\* title+description; otherwise senior if any senior keyword occurs;
\* otherwise entry if any entry-level keyword occurs; otherwise, when
\* min_years_experience is specified, entry if it is <= 1, mid if it is <= 3
\* and senior if it is larger; otherwise mid.  This holds for every specified
\* min_years_experience value, including 0.
C16_JobLevel ==
    pc = "done" =>
        LET combined == Lower(job.title) \o " " \o Lower(job.description)
        IN  result.job_level =
                IF AnyKeywordIn(INTERN_KEYWORDS, combined) THEN "intern"
                ELSE IF AnyKeywordIn(SENIOR_KEYWORDS, combined) THEN "senior"
                ELSE IF AnyKeywordIn(ENTRY_LEVEL_KEYWORDS, combined) THEN "entry"
                ELSE IF job.min_years_experience # None
                     THEN IF RLe(job.min_years_experience, RInt(1)) THEN "entry"
                          ELSE IF RLe(job.min_years_experience, RInt(3)) THEN "mid"
                          ELSE "senior"
                ELSE "mid"


-----------------------------------------------------------------------------
(* The experience score of mid- and senior-level jobs.                     *)

\* C17: for a mid- or senior-level job with min_years_experience set, a
\* candidate whose total experience is at or above the minimum gets an
\* experience score in [75, 95], and a candidate below the minimum gets a
\* score of at most 85, for every combination of role end dates, employer
\* prestige and preferred_years_experience.
C17_MidSeniorExperienceRange ==
    (/\ pc # "request"
     /\ _detect_job_level(job) \in {"mid", "senior"}
     /\ job.min_years_experience # None) =>
        /\ locals.raised = NoneStr
        /\ IF RLe(job.min_years_experience,
                  Rat(TotalMonths(candidate.work_experience), 12))
           THEN RLe(RInt(75), locals.exp_score) /\ RLe(locals.exp_score, RInt(95))
           ELSE RLe(locals.exp_score, RInt(85))


-----------------------------------------------------------------------------
(* Section slices on their own: the text after the experience header of a  *)
(* short document.                                                         *)

\* the most lines after the header
MaxSliceLines == 3

SliceLines == {"", "Education", "Skills:", "Acme Corp 2019", "Built the thing"}

SliceTexts ==
    {Join(<<"Experience">> \o rest, "\n") : rest \in SeqsUpTo(SliceLines, MaxSliceLines)}

InitSlice ==
    /\ pc = "upload"
    /\ upload \in {[file_bytes |-> text, filename |-> "cv.txt"] : text \in SliceTexts}
    /\ job = None
    /\ candidate = None
    /\ custom_weights = None
    /\ mode = "baseline"
    /\ today \in Todays
    /\ locals = NoResult
    /\ result = NoResult
    /\ last = NoLast
    /\ seed = 0 /\ parsed = NoResult
    /\ NoCache

\* exp_match = section_patterns['experience'].search(text);
\* exp_text = self._extract_section(text, exp_match.end())
ExtractSlice ==
    /\ pc = "upload"
    /\ LET Lines(lines) ==
               [raised |-> NoneStr, lines |-> lines,
                exp_match |-> FirstHeader("experience", lines, 1)]
       IN  locals' = Lines(Split(upload.file_bytes, "\n"))
    /\ result' = [raised |-> NoneStr,
                  exp_text |-> _extract_section(locals'.lines, locals'.exp_match)]
    /\ pc' = "done"
    /\ UNCHANGED <<job, candidate, custom_weights, mode, today, last, upload, seed,
                   parsed, settings, _parse_cache, params,
                   scoring_results>>

NextSlice == ExtractSlice

SpecSlice == InitSlice /\ [][NextSlice]_vars

\* the index of the first header line of any section after line h, or 0
NextHeader(lines, h) ==
    LET at == {k \in (h + 1)..Len(lines) : IsAnyHeader(lines[k])}
    IN  IF at = {} THEN 0 ELSE CHOOSE k \in at : \A j \in at : k <= j

\* C18: for any section slice starting at position p, _extract_section
\* returns the text from p up to the start of the earliest section header
\* found after p, and the text to end-of-document only when no header
\* follows; when another section's header begins exactly at p the slice is
\* empty.
C18_SectionSlice ==
    pc = "done" =>
        LET lines == locals.lines
            h == locals.exp_match
            next_header == NextHeader(lines, h)
        IN  result.exp_text =
                IF next_header = 0 THEN SubSeq(lines, h + 1, Len(lines))
                ELSE SubSeq(lines, h + 1, next_header - 1)


-----------------------------------------------------------------------------
(* Work entries on their own: _parse_work_entry on the blocks of a few     *)
(* lines.                                                                  *)

\* the most lines of a block
MaxEntryLines == 4

EntryLines ==
    {"Senior Engineer", "Google, Mountain View", "Jan 2020 - Present",
     "Acme Corp  Mar 2019 - Jan 2020", "^ Built scalable APIs for users"}

EntryTexts ==
    {Join(lines, "\n") : lines \in SeqsUpTo(EntryLines, MaxEntryLines) \ {<<>>}}

InitEntry ==
    /\ pc = "upload"
    /\ upload \in {[file_bytes |-> entry, filename |-> "cv.txt"] : entry \in EntryTexts}
    /\ job = None
    /\ candidate = None
    /\ custom_weights = None
    /\ mode = "baseline"
    /\ today \in Todays
    /\ locals = NoResult
    /\ result = NoResult
    /\ last = NoLast
    /\ seed = 0 /\ parsed = NoResult
    /\ NoCache

\* work = self._parse_work_entry(entry_text)
ParseWorkEntry ==
    /\ pc = "upload"
    /\ locals' = [raised |-> NoneStr,
                  lines |-> StrippedLines(Split(upload.file_bytes, "\n"))]
    /\ result' = [raised |-> NoneStr, work |-> _parse_work_entry(upload.file_bytes, today)]
    /\ pc' = "done"
    /\ UNCHANGED <<job, candidate, custom_weights, mode, today, last, upload, seed,
                   parsed, settings, _parse_cache, params,
                   scoring_results>>

NextEntry == ParseWorkEntry

SpecEntry == InitEntry /\ [][NextEntry]_vars

\* the index, from 0, of the first date-range line among the first four
\* lines that come before any bullet line; -1 when there is none
FirstDateLine(lines) ==
    LET scanned == {i \in 1..Min(4, Len(lines)) :
                       \A k \in 1..i : ~StartsWithBullet(lines[k])}
        dated == {i \in scanned : SearchRange(lines[i], 1).ok}
    IN  IF dated = {} THEN -1 ELSE (CHOOSE i \in dated : \A k \in dated : i <= k) - 1

\* the text before the date range of a line
BeforeDate(line) == Strip(Slice(line, 1, SearchRange(line, 1).start))

\* C19: _parse_work_entry assigns title and employer from the index of the
\* first date-range line among the first four non-bullet lines of a block:
\* index 0 -> employer is the text before the date on that line and title is
\* line 2; index 1 -> employer is line 1 and title is the text before the
\* date on line 2; index 2 or 3 -> title is line 1 and employer is line 2; no
\* date line found -> title is line 1 and employer is line 2.  (The employer
\* is compared after the removal of the location.)
C19_TitleAndEmployer ==
    (pc = "done" /\ result.work # None) =>
        LET lines == locals.lines
            index == FirstDateLine(lines)
        IN  IF index = 0
            THEN /\ result.work.employer = CleanCompany(BeforeDate(lines[1]))
                 /\ result.work.title = lines[2]
            ELSE IF index = 1
            THEN /\ result.work.employer = CleanCompany(lines[1])
                 /\ result.work.title = BeforeDate(lines[2])
            ELSE /\ result.work.title = lines[1]
                 /\ result.work.employer = CleanCompany(lines[2])


-----------------------------------------------------------------------------
(* Jobs without skill requirements.                                        *)

\* C20: for a job with neither required nor preferred skills, the skills
\* component score of a candidate with n skills is min(80, 50 + 5*n), for
\* every n >= 0.
C20_SkillCountScore ==
    (/\ pc # "request"
     /\ locals.raised = NoneStr
     /\ Len(job.required_skills) = 0
     /\ Len(job.preferred_skills) = 0) =>
        locals.skills_score = RMin(RInt(80), RInt(50 + 5 * Len(candidate.skills)))


-----------------------------------------------------------------------------
(* The stability score of early-career candidates.                         *)

\* C21: for a candidate whose work entries all last at most 6 months, or who
\* is scored against an intern- or entry-level job, the stability score is 85
\* when the candidate has two or more roles and 80 when the candidate has
\* exactly one role.
C21_EarlyCareerStability ==
    (/\ pc # "request"
     /\ locals.raised = NoneStr
     /\ Len(candidate.work_experience) >= 1
     /\ \/ \A i \in 1..Len(candidate.work_experience) :
               /\ candidate.work_experience[i].duration_months # 0
               /\ candidate.work_experience[i].duration_months <= 6
        \/ _detect_job_level(job) \in {"intern", "entry"}) =>
        locals.stability_score =
            IF Len(candidate.work_experience) >= 2 THEN RInt(85) ELSE RInt(80)


-----------------------------------------------------------------------------
(* SkillMatcher.match_skill on its own: a required term is matched against *)
(* the keys of a candidate's skills, then once more after a skill is added *)
(* to them.  locals holds the call's arguments, result the strength in     *)
(* hundredths, last the call before.                                       *)

\* the most skills of the first call
MaxSkills == 2

MatchRequired == {"Vue.js", "postgresql", "k8s", "amazon cloud", "python"}

MatchSkillNames ==
    {"vuejs", "psql", "postgres db", "kubernetes", "cooking", "aws",
     "amazon web services"}

\* the keys of a dict are distinct
DistinctSeqs(S, n) ==
    {q \in SeqsUpTo(S, n) : \A i, k \in 1..Len(q) : i # k => q[i] # q[k]}

InitMatch ==
    /\ pc = "request"
    /\ locals \in {[raised |-> NoneStr, required |-> r, candidate_skills |-> q] :
                      r \in MatchRequired, q \in DistinctSeqs(MatchSkillNames, MaxSkills)}
    /\ job = None
    /\ candidate = None
    /\ custom_weights = None
    /\ mode = "baseline"
    /\ today \in Todays
    /\ result = NoResult
    /\ last = NoLast
    /\ NoParse

\* self.skill_matcher.match_skill(required, candidate_skills)
MatchSkill ==
    /\ pc = "request"
    /\ result' = [raised |-> NoneStr,
                  strength |-> match_skill(locals.required, locals.candidate_skills)]
    /\ pc' = "done"
    /\ UNCHANGED <<job, candidate, custom_weights, mode, today, locals, last, upload, seed,
                   parsed, settings, _parse_cache, params,
                   scoring_results>>

\* the same required term against the candidate with one more skill
AddSkill ==
    /\ pc = "done"
    /\ last = NoLast
    /\ \E name \in MatchSkillNames :
           /\ ~InSeq(name, locals.candidate_skills)
           /\ locals' = [locals EXCEPT !.candidate_skills = Append(@, name)]
    /\ last' = [candidate |-> locals.candidate_skills, locals |-> locals, result |-> result]
    /\ result' = NoResult
    /\ pc' = "request"
    /\ UNCHANGED <<job, candidate, custom_weights, mode, today, upload, seed, parsed,
                   settings, _parse_cache, params,
                   scoring_results>>

NextMatch == MatchSkill \/ AddSkill

SpecMatch == InitMatch /\ [][NextMatch]_vars

\* the required term is a key of the candidate's skills, or contains or is
\* contained in one
ExactOrSubstring(required_lower, candidate_skills) ==
    \E i \in 1..Len(candidate_skills) :
        \/ Contains(required_lower, candidate_skills[i])
        \/ Contains(candidate_skills[i], required_lower)

\* some candidate skill equals a synonym of a group of the required term
HasExactSynonym(required_lower, candidate_skills) ==
    \E g \in 1..Len(synonyms) :
        /\ InSeq(required_lower, synonyms[g][2]) \/ required_lower = synonyms[g][1]
        /\ \E k \in 1..Len(synonyms[g][2]) : InSeq(synonyms[g][2][k], candidate_skills)

\* C22: when the required term is not an exact key or substring match of any
\* candidate skill, and some candidate skill name equals a curated synonym
\* from the required term's synonym group, match_skill returns 0.85,
\* whichever other skills the candidate has and wherever that synonym sits in
\* the group's list.
C22_ExactSynonymStrength ==
    (/\ pc = "done"
     /\ ~ExactOrSubstring(Strip(Lower(locals.required)), locals.candidate_skills)
     /\ HasExactSynonym(Strip(Lower(locals.required)), locals.candidate_skills)) =>
        result.strength = 85


\* C30: for a fixed required skill, adding a skill to the candidate's skill
\* set never lowers the match strength returned by match_skill.
C30_MoreSkillsNeverLower ==
    (pc = "done" /\ last # NoLast) => result.strength >= last.result.strength


-----------------------------------------------------------------------------
(* Education scoring over candidates whose education entries may lack a     *)
(* recognised degree level (degree = None) or name a tiered university.     *)

MaxEducation == 2

EducationInstitutions == {"MIT", "University of Manchester", "Springfield College"}
EducationDegrees == {NoneStr, "bachelors", "masters"}

EducationEntries ==
    {Edu(i, d, "Computer Science") : i \in EducationInstitutions, d \in EducationDegrees}

EducationJobs ==
    {[Job("Software Engineer", <<>>, <<>>, None, None)
         EXCEPT !.min_education = me, !.preferred_education = pe] :
        me \in {NoneStr, "bachelors", "masters"}, pe \in {NoneStr, "masters"}}

InitEducation ==
    /\ pc = "request"
    /\ job \in EducationJobs
    /\ candidate \in {Candidate(<<>>, <<>>, e) : e \in SeqsUpTo(EducationEntries, MaxEducation)}
    /\ custom_weights = None
    /\ mode = "baseline"
    /\ today \in Todays
    /\ locals = NoResult
    /\ result = NoResult
    /\ last = NoLast
    /\ NoParse

NextEducation == Score

SpecEducation == InitEducation /\ [][NextEducation]_vars

\* the largest prestige multiplier over every education entry, with or
\* without a degree
MaxPrestigeOfAllEntries(education) ==
    LET S == {get_university_prestige_multiplier(education[i].institution) :
                 i \in 1..Len(education)}
    IN  CHOOSE x \in S : \A y \in S : y <= x

\* C23: the education score of a candidate with education entries is the one
\* computed from the maximum university prestige multiplier over all of the
\* entries, those without a recognised degree level included.
C23_PrestigeOverAllEntries ==
    (pc = "done" /\ locals.raised = NoneStr /\ Len(candidate.education) > 0)
        => locals.edu_score =
               EducationScore(HighestRank(candidate.education),
                              MaxPrestigeOfAllEntries(candidate.education), job)[1]


-----------------------------------------------------------------------------
(* Experience scoring over every end_date year that _extract_dates keeps    *)
(* (1990 to 2030) and scoring dates before, inside and at the end of that   *)
(* range.                                                                   *)

\* the years _extract_dates accepts: 1990 <= year <= 2030
ParsedYears == 1990..2030

RecencyTodays == {<<2024, 2, 29>>, <<2026, 11, 2>>, <<2030, 12, 31>>}

RecencyEntries ==
    {Work("Unknown Startup LLC", <<y, 1, 1>>, <<y, 7, 1>>, 6) :
        y \in ParsedYears}
        \cup {Work("Unknown Startup LLC", <<2023, 11, 1>>, None, 3)}

InitRecency ==
    /\ pc = "request"
    /\ job \in {Job(t, <<>>, <<>>, None, None) : t \in Titles}
    /\ candidate \in {Candidate(<<>>, <<w>>, <<>>) : w \in RecencyEntries}
    /\ custom_weights = None
    /\ mode = "baseline"
    /\ today \in RecencyTodays
    /\ locals = NoResult
    /\ result = NoResult
    /\ last = NoLast
    /\ NoParse

NextRecency == Score

SpecRecency == InitRecency /\ [][NextRecency]_vars

\* C24: the recency factor that experience scoring applies to a work entry
\* is 1.0 for a current role and otherwise between 0.5 and 1.0 (factors are
\* in tenths), for every end_date year from 1990 to 2030 and every scoring
\* date.
C24_RecencyFactorRange ==
    pc = "done" =>
        \A i \in 1..Len(candidate.work_experience) :
            LET work == candidate.work_experience[i]
                recency_factor == RecencyFactor(work, today[1])
            IN  /\ work.end_date = None => recency_factor = 10
                /\ recency_factor >= 5 /\ recency_factor <= 10


-----------------------------------------------------------------------------
(* PersistenceService.save_parsed_cv_robust: the pre-operation health       *)
(* check, the retry loop (transaction, read-back verification, error        *)
(* classification) and the file backup. The database and the file system    *)
(* are the environment: every outcome of a health check, a flush, a commit, *)
(* a read-back and a backup write is possible. locals holds the service's   *)
(* settings, the call's arguments and locals, and what the call has done:   *)
(* rows is the number of ParsedCV rows it committed, commits the number of  *)
(* db.commit() calls, backups the number of _save_to_backup calls.          *)

MaxRetries == 3

DBErrors ==
    {"OperationalError", "IntegrityError", "DataError", "DatabaseError", "RuntimeError"}

_classify_error(error) ==
    CASE error = "OperationalError" -> <<"operational_error", TRUE>>
      [] error = "IntegrityError" -> <<"integrity_error", FALSE>>
      [] error = "DataError" -> <<"data_error", FALSE>>
      [] error = "DatabaseError" -> <<"database_error", TRUE>>
      [] error \in {"TransactionVerificationError", "DatabaseHealthCheckError"} ->
             <<error, TRUE>>
      [] OTHER -> <<"unknown_error", FALSE>>

InitPersist ==
    /\ pc = "health"
    /\ locals \in {[raised |-> NoneStr, max_retries |-> n, enable_verification |-> v,
                    enable_health_checks |-> h, fail_on_error |-> f,
                    attempt |-> 0, last_error |-> NoneStr,
                    rows |-> 0, commits |-> 0, backups |-> 0] :
                      n \in 1..MaxRetries, v \in BOOLEAN, h \in BOOLEAN, f \in BOOLEAN}
    /\ job = None
    /\ candidate = None
    /\ custom_weights = None
    /\ mode = "baseline"
    /\ today \in Todays
    /\ result = NoResult
    /\ last = NoLast
    /\ NoParse

\* return cv_record, None
SavedRecord == [raised |-> NoneStr, cv_record |-> "cv_record", error_msg |-> NoneStr]

\* return None, error_msg
NotSaved(error_msg) == [raised |-> NoneStr, cv_record |-> None, error_msg |-> error_msg]

\* the except clause of the retry loop: the state after the attempt of l
\* failed with error
SaveAttemptFailed(l, error) ==
    IF l.attempt = l.max_retries - 1 \/ ~_classify_error(error)[2]
    THEN /\ locals' = [l EXCEPT !.last_error = error]
         /\ pc' = "backup"
    ELSE /\ locals' = [l EXCEPT !.last_error = error, !.attempt = @ + 1]
         /\ pc' = "transaction"

CheckDatabaseHealth ==
    /\ pc = "health"
    /\ \E healthy \in BOOLEAN :
          IF ~locals.enable_health_checks \/ healthy
          THEN /\ pc' = "transaction"
               /\ UNCHANGED <<locals, result>>
          ELSE IF locals.fail_on_error
          THEN /\ locals' = [locals EXCEPT !.backups = @ + 1]
               /\ result' = [raised |-> "PersistenceError", cv_record |-> None,
                             error_msg |-> NoneStr]
               /\ pc' = "done"
          ELSE /\ result' = NotSaved("Database health check failed")
               /\ pc' = "done"
               /\ UNCHANGED locals
    /\ UNCHANGED <<job, candidate, custom_weights, mode, today, last, upload, seed,
                   parsed, settings, _parse_cache, params,
                   scoring_results>>

\* one pass through `with self._transaction_scope(db)`: create and flush,
\* then db.commit(); an error of either rolls back
TransactionScope ==
    /\ pc = "transaction"
    /\ \E stage \in {"flush", "commit"}, error \in DBErrors \cup {NoneStr} :
          /\ error = NoneStr => stage = "commit"
          /\ LET l == IF stage = "commit"
                      THEN [locals EXCEPT !.commits = @ + 1,
                                          !.rows = IF error = NoneStr THEN @ + 1 ELSE @]
                      ELSE locals
             IN  IF error # NoneStr
                 THEN SaveAttemptFailed(l, error) /\ UNCHANGED result
                 ELSE IF l.enable_verification
                 THEN locals' = l /\ pc' = "verify" /\ UNCHANGED result
                 ELSE locals' = l /\ pc' = "done" /\ result' = SavedRecord
    /\ UNCHANGED <<job, candidate, custom_weights, mode, today, last, upload, seed,
                   parsed, settings, _parse_cache, params,
                   scoring_results>>

VerifySavedData ==
    /\ pc = "verify"
    /\ \E verified \in BOOLEAN :
          IF verified
          THEN /\ result' = SavedRecord
               /\ pc' = "done"
               /\ UNCHANGED locals
          ELSE /\ SaveAttemptFailed(locals, "TransactionVerificationError")
               /\ UNCHANGED result
    /\ UNCHANGED <<job, candidate, custom_weights, mode, today, last, upload, seed,
                   parsed, settings, _parse_cache, params,
                   scoring_results>>

\* after the loop: _save_to_backup, then raise or return by fail_on_error.
\* The MaxRetriesExceededError raised inside the try is caught by its own
\* `except Exception` and leaves as PersistenceError.
SaveToBackup ==
    /\ pc = "backup"
    /\ \E written \in BOOLEAN :
          /\ locals' = [locals EXCEPT !.backups = @ + 1]
          /\ result' = IF locals.fail_on_error
                       THEN [raised |-> "PersistenceError", cv_record |-> None,
                             error_msg |-> NoneStr]
                       ELSE NotSaved(IF written
                                     THEN "Database save failed. Data backed up"
                                     ELSE "CRITICAL: Database save failed AND backup failed")
    /\ pc' = "done"
    /\ UNCHANGED <<job, candidate, custom_weights, mode, today, last, upload, seed,
                   parsed, settings, _parse_cache, params,
                   scoring_results>>

NextPersist ==
    \/ CheckDatabaseHealth
    \/ TransactionScope
    \/ VerifySavedData
    \/ SaveToBackup

SpecPersist == InitPersist /\ [][NextPersist]_vars

\* C25: whenever save_parsed_cv_robust ends without a saved record (it raises
\* or returns None as record), with fail_on_error true or false, it has
\* attempted a backup write before it ends.
C25_BackupBeforeFailure ==
    (pc = "done" /\ result.cv_record = None) => locals.backups >= 1

\* C29: one call commits at most one ParsedCV row and makes at most
\* max_retries commit attempts.
C29_AtMostOneRow ==
    pc = "done" => (locals.rows <= 1 /\ locals.commits <= locals.max_retries)


\* C26: for an intern-level job, a candidate with at least one work entry
\* gets an experience component score no lower than the same candidate
\* without work entries.
C26_InternExperienceNotLower ==
    (/\ pc = "done"
     /\ locals.raised = NoneStr
     /\ _detect_job_level(job) = "intern"
     /\ Len(candidate.work_experience) >= 1)
        => RLe(_score_experience([candidate EXCEPT !.work_experience = <<>>],
                                 job, "intern", today[1])[1],
               locals.exp_score)


\* C27: in a WorkExperience built from a block, title and employer are never
\* taken from a line that starts with a bullet marker, and (the lines of the
\* block being distinct) no element of bullets is the line used as title or
\* as employer.
C27_LineUsedOnce ==
    (pc = "done" /\ result.work # None) =>
        LET lines == locals.lines
            work == result.work
            distinct == \A i, k \in 1..Len(lines) : i # k => lines[i] # lines[k]
        IN  /\ ~StartsWithBullet(work.title)
            /\ ~StartsWithBullet(work.employer)
            /\ distinct =>
                   \A n \in 1..Len(work.bullets) :
                       /\ work.bullets[n] # CleanBullet(work.title)
                       /\ work.bullets[n] # work.title
                       /\ work.bullets[n] # work.employer


-----------------------------------------------------------------------------
(* POST /v1/score with a cv_id in candidate.parsing_metadata: the lookup of *)
(* an earlier result in table scoring_results, the scoring, and the row     *)
(* stored after it. Every request of a behaviour carries the same cv_id and *)
(* candidate; job, custom_weights and mode are the request's.               *)

MaxRows == 2

RouteCvId == "cv-1"

RouteJobs ==
    {Job(t, <<"python">>, <<>>, None, None) : t \in {"Software Engineer", "Summer Intern"}}

RouteCandidates ==
    {Candidate(s, <<w>>, <<Edu("MIT", "bachelors", "Computer Science")>>) :
        s \in SkillLists, w \in WorkEntries}

\* f"{job.title}|{job.description}"; equal texts have equal sha256 hashes
job_description_text(j) == <<j.title, j.description>>

\* column overall_score is Numeric(5, 2)
Numeric52(overall_score) == Round2(overall_score)

\* ScoringResultRepository.create
ScoringResultRow(r, j) ==
    [parsed_cv_id |-> RouteCvId,
     job_description_hash |-> job_description_text(j),
     overall_score |-> Numeric52(r.overall_score),
     component_scores |-> [breakdown |-> r.breakdown, flags |-> r.flags],
     rationale |-> r.rationale]

\* the rows get_by_cv_and_job's query matches; .first() has no ORDER BY, so
\* any of them may be the one returned
get_by_cv_and_job(rows, parsed_cv_id, job_description) ==
    {i \in 1..Len(rows) : /\ rows[i].parsed_cv_id = parsed_cv_id
                          /\ rows[i].job_description_hash = job_description}

\* the ScoringResult the route rebuilds from a cached row
CachedResult(cached_result) ==
    ScoringResult(cached_result.overall_score,
                  cached_result.component_scores.breakdown,
                  cached_result.rationale,
                  cached_result.component_scores.flags,
                  "baseline", None)

InitRoute ==
    /\ pc = "request"
    /\ job \in RouteJobs
    /\ candidate \in RouteCandidates
    /\ custom_weights \in CustomWeights
    /\ mode \in {"baseline", "llm"}
    /\ today \in Todays
    /\ locals = NoResult
    /\ result = NoResult
    /\ last = NoLast
    /\ upload = NoUpload /\ seed = 0 /\ parsed = NoResult
    /\ settings \in {DefaultSettings, LLMSettings}
    /\ _parse_cache = <<>> /\ scoring_results = <<>>
    /\ params = DefaultParams

\* score_candidate up to the LLM call: mode validation, cache lookup, the
\* cached answer of a baseline request, else scorer.score and, for a baseline
\* request, the row stored
ScoreCandidate ==
    /\ pc = "request"
    /\ LET matching == get_by_cv_and_job(scoring_results, RouteCvId,
                                         job_description_text(job))
           Computed(l, r) ==
               /\ locals' = l
               /\ result' = r
               /\ IF r.raised # NoneStr
                  THEN pc' = "done" /\ UNCHANGED scoring_results
                  ELSE IF mode = "llm"
                  THEN pc' = "enhance" /\ UNCHANGED scoring_results
                  ELSE /\ pc' = "done"
                       /\ scoring_results' = Append(scoring_results, ScoringResultRow(r, job))
           Scored(l) == Computed(l, BuildResult(l))
       IN  IF mode = "llm" /\ ~settings.LLM_ENABLED
           THEN /\ result' = [raised |-> "HTTP 422"]
                /\ pc' = "done"
                /\ UNCHANGED <<locals, scoring_results>>
           ELSE IF matching # {} /\ mode = "baseline"
           THEN /\ \E i \in matching : result' = CachedResult(scoring_results[i])
                /\ pc' = "done"
                /\ UNCHANGED <<locals, scoring_results>>
           ELSE Scored(ScoreLocals(candidate, job, custom_weights, today[1]))
    /\ UNCHANGED <<job, candidate, custom_weights, mode, today, last, upload, seed,
                   parsed, settings, _parse_cache, params>>

\* the LLM call of an llm-mode request and the row stored after it
EnhanceAndStore ==
    /\ pc = "enhance"
    /\ \E llm_response \in LLMCallOutcomes :
          LET Stored(r) ==
                  /\ result' = r
                  /\ scoring_results' = Append(scoring_results, ScoringResultRow(r, job))
          IN  Stored(enhance_score(result, llm_response))
    /\ pc' = "done"
    /\ UNCHANGED <<job, candidate, custom_weights, mode, today, locals, last, upload,
                   seed, parsed, settings, _parse_cache, params>>

\* the next score request for the same cv_id
NextScoreRequest ==
    /\ pc = "done"
    /\ Len(scoring_results) < MaxRows
    /\ job' \in RouteJobs
    /\ custom_weights' \in CustomWeights
    /\ mode' \in {"baseline", "llm"}
    /\ locals' = NoResult
    /\ result' = NoResult
    /\ pc' = "request"
    /\ UNCHANGED <<candidate, today, last, upload, seed, parsed, settings,
                   _parse_cache, params, scoring_results>>

NextRoute ==
    \/ ScoreCandidate
    \/ EnhanceAndStore
    \/ NextScoreRequest

SpecRoute == InitRoute /\ [][NextRoute]_vars

\* the fields of a result the claim compares
ScoredFields(r) == <<r.overall_score, r.breakdown, r.flags, r.rationale>>

\* C28: a baseline-mode request that is answered returns the overall_score,
\* breakdown, flags and rationale of ScoringEngine.score for its candidate,
\* job and custom_weights, whatever score requests for the same cv_id came
\* before it.
C28_BaselineEqualsScore ==
    (pc = "done" /\ mode = "baseline" /\ result.raised = NoneStr)
        => ScoredFields(result) =
               ScoredFields(BuildResult(ScoreLocals(candidate, job, custom_weights,
                                                    today[1])))

=============================================================================
